---- MODULE Spec2Model ----
(***************************************************************************)
(* Patient Service of the Healthcare Management System: registration and   *)
(* login (auth_routes.py), role gating (decorators.py), the patient        *)
(* registry and the medical record ledger (routes.py) with their audit     *)
(* trail (utils.py), over the tables of models.py.                         *)
(*                                                                         *)
(* Text values are sequences of characters, so that strip(), lower(),      *)
(* len(), int(), the e-mail pattern and the 72 bytes read by bcrypt are    *)
(* computed, not assumed.  A character is a string: a printable ASCII      *)
(* character is itself, the controls with an escape are "\t", "\n", "\r"   *)
(* and "\f", and any other character is named by its code point in         *)
(* hexadecimal, "U+000B", "U+00A0", "U+0663" (so is the grave accent,      *)
(* "U+0060", which a string of this language cannot hold).  The alphabet   *)
(* is ASCII, the white space of str.isspace() and the decimal digits of    *)
(* Unicode 14 (the tables below are those of Python 3.11).  A              *)
(* JSON field that is absent (None) and one that is the empty string are   *)
(* both falsy in the handlers' "if not x" tests; both are the empty        *)
(* sequence here.  Where a handler calls a method of the value, as         *)
(* update_patient does, a JSON null is Null, which has no strip().         *)
(*                                                                         *)
(* Each request runs in one of the worker slots of Procs.  A handler is    *)
(* cut at its database round trips (query, commit, audit commit), the only *)
(* places where another request can interleave; a step is one round trip   *)
(* and the code that runs up to the next one.                              *)
(***************************************************************************)
EXTENDS Integers, Sequences, FiniteSets, TLC

VARIABLES
    users,          \* table users (models.User), in insertion order
    tokens,         \* identities of the access tokens issued by login
    patients,       \* table patients (models.Patient); the id is the index
    records,        \* table medical_records (models.MedicalRecord)
    audit,          \* table audit_logs (models.AuditLog)
    notifications,  \* events handed to send_notification_event
    now,            \* the clock read by datetime.utcnow()
    procs,          \* per worker: the request in flight and its session
    resp            \* the response sent last

vars == <<users, tokens, patients, records, audit, notifications, now, procs, resp>>

\* ------------------------------------------------------------------ bounds
MaxUsers == 3
MaxPatients == 2
MaxRecords == 2
MaxClock == 9

Procs == {1, 2}

\* ------------------------------------------------------------------- text
UpperCase == <<"A","B","C","D","E","F","G","H","I","J","K","L","M",
               "N","O","P","Q","R","S","T","U","V","W","X","Y","Z">>
LowerCase == <<"a","b","c","d","e","f","g","h","i","j","k","l","m",
               "n","o","p","q","r","s","t","u","v","w","x","y","z">>
Digits == {"0","1","2","3","4","5","6","7","8","9"}
Letters == {UpperCase[i] : i \in 1..26} \cup {LowerCase[i] : i \in 1..26}

\* the printable ASCII characters; the one at position i has code 31 + i
AsciiPrintable ==
    << " ", "!", "\"", "#", "$", "%", "&", "'", "(", ")", "*", "+", ",", "-",
       ".", "/", "0", "1", "2", "3", "4", "5", "6", "7", "8", "9", ":", ";",
       "<", "=", ">", "?", "@", "A", "B", "C", "D", "E", "F", "G", "H", "I",
       "J", "K", "L", "M", "N", "O", "P", "Q", "R", "S", "T", "U", "V", "W",
       "X", "Y", "Z", "[", "\\", "]", "^", "_", "U+0060", "a", "b", "c", "d",
       "e", "f", "g", "h", "i", "j", "k", "l", "m", "n", "o", "p", "q", "r",
       "s", "t", "u", "v", "w", "x", "y", "z", "{", "|", "}", "~" >>

\* the characters for which str.isspace() holds, each with its code point
WhitespaceCodes ==
    { <<"\t", 9>>, <<"\n", 10>>, <<"U+000B", 11>>, <<"\f", 12>>,
      <<"\r", 13>>, <<"U+001C", 28>>, <<"U+001D", 29>>, <<"U+001E", 30>>,
      <<"U+001F", 31>>, <<" ", 32>>, <<"U+0085", 133>>, <<"U+00A0", 160>>,
      <<"U+1680", 5760>>, <<"U+2000", 8192>>, <<"U+2001", 8193>>,
      <<"U+2002", 8194>>, <<"U+2003", 8195>>, <<"U+2004", 8196>>,
      <<"U+2005", 8197>>, <<"U+2006", 8198>>, <<"U+2007", 8199>>,
      <<"U+2008", 8200>>, <<"U+2009", 8201>>, <<"U+200A", 8202>>,
      <<"U+2028", 8232>>, <<"U+2029", 8233>>, <<"U+202F", 8239>>,
      <<"U+205F", 8287>>, <<"U+3000", 12288>> }

\* what str.strip() removes
Whitespace == {w[1] : w \in WhitespaceCodes}

\* what int() removes around the number: the separators U+001C to U+001F
\* are white space for str.strip() and not for int()
IntWhitespace == Whitespace \ {"U+001C", "U+001D", "U+001E", "U+001F"}

\* the characters with the decimal digit value 0 (category Nd), one per
\* script, and their code points; the digits 1 to 9 of a script follow its
\* zero
DecimalZeros ==
    << "0", "U+0660", "U+06F0", "U+07C0", "U+0966", "U+09E6", "U+0A66",
       "U+0AE6", "U+0B66", "U+0BE6", "U+0C66", "U+0CE6", "U+0D66", "U+0DE6",
       "U+0E50", "U+0ED0", "U+0F20", "U+1040", "U+1090", "U+17E0", "U+1810",
       "U+1946", "U+19D0", "U+1A80", "U+1A90", "U+1B50", "U+1BB0", "U+1C40",
       "U+1C50", "U+A620", "U+A8D0", "U+A900", "U+A9D0", "U+A9F0", "U+AA50",
       "U+ABF0", "U+FF10", "U+104A0", "U+10D30", "U+11066", "U+110F0",
       "U+11136", "U+111D0", "U+112F0", "U+11450", "U+114D0", "U+11650",
       "U+116C0", "U+11730", "U+118E0", "U+11950", "U+11C50", "U+11D50",
       "U+11DA0", "U+16A60", "U+16AC0", "U+16B50", "U+1D7CE", "U+1D7D8",
       "U+1D7E2", "U+1D7EC", "U+1D7F6", "U+1E140", "U+1E2F0", "U+1E950",
       "U+1FBF0" >>

DecimalZeroCodes ==
    << 48, 1632, 1776, 1984, 2406, 2534, 2662, 2790, 2918, 3046, 3174, 3302,
       3430, 3558, 3664, 3792, 3872, 4160, 4240, 6112, 6160, 6470, 6608,
       6784, 6800, 6992, 7088, 7232, 7248, 42528, 43216, 43264, 43472, 43504,
       43600, 44016, 65296, 66720, 68912, 69734, 69872, 69942, 70096, 70384,
       70736, 70864, 71248, 71360, 71472, 71904, 72016, 72784, 73040, 73120,
       92768, 92864, 93008, 120782, 120792, 120802, 120812, 120822, 123200,
       123632, 125264, 130032 >>

\* the ten digits of each script, in the order of DecimalZeros
DecimalDigits ==
    << <<"0","1","2","3","4","5","6","7","8","9">>,
       <<"U+0660","U+0661","U+0662","U+0663","U+0664","U+0665","U+0666","U+0667","U+0668","U+0669">>,
       <<"U+06F0","U+06F1","U+06F2","U+06F3","U+06F4","U+06F5","U+06F6","U+06F7","U+06F8","U+06F9">>,
       <<"U+07C0","U+07C1","U+07C2","U+07C3","U+07C4","U+07C5","U+07C6","U+07C7","U+07C8","U+07C9">>,
       <<"U+0966","U+0967","U+0968","U+0969","U+096A","U+096B","U+096C","U+096D","U+096E","U+096F">>,
       <<"U+09E6","U+09E7","U+09E8","U+09E9","U+09EA","U+09EB","U+09EC","U+09ED","U+09EE","U+09EF">>,
       <<"U+0A66","U+0A67","U+0A68","U+0A69","U+0A6A","U+0A6B","U+0A6C","U+0A6D","U+0A6E","U+0A6F">>,
       <<"U+0AE6","U+0AE7","U+0AE8","U+0AE9","U+0AEA","U+0AEB","U+0AEC","U+0AED","U+0AEE","U+0AEF">>,
       <<"U+0B66","U+0B67","U+0B68","U+0B69","U+0B6A","U+0B6B","U+0B6C","U+0B6D","U+0B6E","U+0B6F">>,
       <<"U+0BE6","U+0BE7","U+0BE8","U+0BE9","U+0BEA","U+0BEB","U+0BEC","U+0BED","U+0BEE","U+0BEF">>,
       <<"U+0C66","U+0C67","U+0C68","U+0C69","U+0C6A","U+0C6B","U+0C6C","U+0C6D","U+0C6E","U+0C6F">>,
       <<"U+0CE6","U+0CE7","U+0CE8","U+0CE9","U+0CEA","U+0CEB","U+0CEC","U+0CED","U+0CEE","U+0CEF">>,
       <<"U+0D66","U+0D67","U+0D68","U+0D69","U+0D6A","U+0D6B","U+0D6C","U+0D6D","U+0D6E","U+0D6F">>,
       <<"U+0DE6","U+0DE7","U+0DE8","U+0DE9","U+0DEA","U+0DEB","U+0DEC","U+0DED","U+0DEE","U+0DEF">>,
       <<"U+0E50","U+0E51","U+0E52","U+0E53","U+0E54","U+0E55","U+0E56","U+0E57","U+0E58","U+0E59">>,
       <<"U+0ED0","U+0ED1","U+0ED2","U+0ED3","U+0ED4","U+0ED5","U+0ED6","U+0ED7","U+0ED8","U+0ED9">>,
       <<"U+0F20","U+0F21","U+0F22","U+0F23","U+0F24","U+0F25","U+0F26","U+0F27","U+0F28","U+0F29">>,
       <<"U+1040","U+1041","U+1042","U+1043","U+1044","U+1045","U+1046","U+1047","U+1048","U+1049">>,
       <<"U+1090","U+1091","U+1092","U+1093","U+1094","U+1095","U+1096","U+1097","U+1098","U+1099">>,
       <<"U+17E0","U+17E1","U+17E2","U+17E3","U+17E4","U+17E5","U+17E6","U+17E7","U+17E8","U+17E9">>,
       <<"U+1810","U+1811","U+1812","U+1813","U+1814","U+1815","U+1816","U+1817","U+1818","U+1819">>,
       <<"U+1946","U+1947","U+1948","U+1949","U+194A","U+194B","U+194C","U+194D","U+194E","U+194F">>,
       <<"U+19D0","U+19D1","U+19D2","U+19D3","U+19D4","U+19D5","U+19D6","U+19D7","U+19D8","U+19D9">>,
       <<"U+1A80","U+1A81","U+1A82","U+1A83","U+1A84","U+1A85","U+1A86","U+1A87","U+1A88","U+1A89">>,
       <<"U+1A90","U+1A91","U+1A92","U+1A93","U+1A94","U+1A95","U+1A96","U+1A97","U+1A98","U+1A99">>,
       <<"U+1B50","U+1B51","U+1B52","U+1B53","U+1B54","U+1B55","U+1B56","U+1B57","U+1B58","U+1B59">>,
       <<"U+1BB0","U+1BB1","U+1BB2","U+1BB3","U+1BB4","U+1BB5","U+1BB6","U+1BB7","U+1BB8","U+1BB9">>,
       <<"U+1C40","U+1C41","U+1C42","U+1C43","U+1C44","U+1C45","U+1C46","U+1C47","U+1C48","U+1C49">>,
       <<"U+1C50","U+1C51","U+1C52","U+1C53","U+1C54","U+1C55","U+1C56","U+1C57","U+1C58","U+1C59">>,
       <<"U+A620","U+A621","U+A622","U+A623","U+A624","U+A625","U+A626","U+A627","U+A628","U+A629">>,
       <<"U+A8D0","U+A8D1","U+A8D2","U+A8D3","U+A8D4","U+A8D5","U+A8D6","U+A8D7","U+A8D8","U+A8D9">>,
       <<"U+A900","U+A901","U+A902","U+A903","U+A904","U+A905","U+A906","U+A907","U+A908","U+A909">>,
       <<"U+A9D0","U+A9D1","U+A9D2","U+A9D3","U+A9D4","U+A9D5","U+A9D6","U+A9D7","U+A9D8","U+A9D9">>,
       <<"U+A9F0","U+A9F1","U+A9F2","U+A9F3","U+A9F4","U+A9F5","U+A9F6","U+A9F7","U+A9F8","U+A9F9">>,
       <<"U+AA50","U+AA51","U+AA52","U+AA53","U+AA54","U+AA55","U+AA56","U+AA57","U+AA58","U+AA59">>,
       <<"U+ABF0","U+ABF1","U+ABF2","U+ABF3","U+ABF4","U+ABF5","U+ABF6","U+ABF7","U+ABF8","U+ABF9">>,
       <<"U+FF10","U+FF11","U+FF12","U+FF13","U+FF14","U+FF15","U+FF16","U+FF17","U+FF18","U+FF19">>,
       <<"U+104A0","U+104A1","U+104A2","U+104A3","U+104A4","U+104A5","U+104A6","U+104A7","U+104A8","U+104A9">>,
       <<"U+10D30","U+10D31","U+10D32","U+10D33","U+10D34","U+10D35","U+10D36","U+10D37","U+10D38","U+10D39">>,
       <<"U+11066","U+11067","U+11068","U+11069","U+1106A","U+1106B","U+1106C","U+1106D","U+1106E","U+1106F">>,
       <<"U+110F0","U+110F1","U+110F2","U+110F3","U+110F4","U+110F5","U+110F6","U+110F7","U+110F8","U+110F9">>,
       <<"U+11136","U+11137","U+11138","U+11139","U+1113A","U+1113B","U+1113C","U+1113D","U+1113E","U+1113F">>,
       <<"U+111D0","U+111D1","U+111D2","U+111D3","U+111D4","U+111D5","U+111D6","U+111D7","U+111D8","U+111D9">>,
       <<"U+112F0","U+112F1","U+112F2","U+112F3","U+112F4","U+112F5","U+112F6","U+112F7","U+112F8","U+112F9">>,
       <<"U+11450","U+11451","U+11452","U+11453","U+11454","U+11455","U+11456","U+11457","U+11458","U+11459">>,
       <<"U+114D0","U+114D1","U+114D2","U+114D3","U+114D4","U+114D5","U+114D6","U+114D7","U+114D8","U+114D9">>,
       <<"U+11650","U+11651","U+11652","U+11653","U+11654","U+11655","U+11656","U+11657","U+11658","U+11659">>,
       <<"U+116C0","U+116C1","U+116C2","U+116C3","U+116C4","U+116C5","U+116C6","U+116C7","U+116C8","U+116C9">>,
       <<"U+11730","U+11731","U+11732","U+11733","U+11734","U+11735","U+11736","U+11737","U+11738","U+11739">>,
       <<"U+118E0","U+118E1","U+118E2","U+118E3","U+118E4","U+118E5","U+118E6","U+118E7","U+118E8","U+118E9">>,
       <<"U+11950","U+11951","U+11952","U+11953","U+11954","U+11955","U+11956","U+11957","U+11958","U+11959">>,
       <<"U+11C50","U+11C51","U+11C52","U+11C53","U+11C54","U+11C55","U+11C56","U+11C57","U+11C58","U+11C59">>,
       <<"U+11D50","U+11D51","U+11D52","U+11D53","U+11D54","U+11D55","U+11D56","U+11D57","U+11D58","U+11D59">>,
       <<"U+11DA0","U+11DA1","U+11DA2","U+11DA3","U+11DA4","U+11DA5","U+11DA6","U+11DA7","U+11DA8","U+11DA9">>,
       <<"U+16A60","U+16A61","U+16A62","U+16A63","U+16A64","U+16A65","U+16A66","U+16A67","U+16A68","U+16A69">>,
       <<"U+16AC0","U+16AC1","U+16AC2","U+16AC3","U+16AC4","U+16AC5","U+16AC6","U+16AC7","U+16AC8","U+16AC9">>,
       <<"U+16B50","U+16B51","U+16B52","U+16B53","U+16B54","U+16B55","U+16B56","U+16B57","U+16B58","U+16B59">>,
       <<"U+1D7CE","U+1D7CF","U+1D7D0","U+1D7D1","U+1D7D2","U+1D7D3","U+1D7D4","U+1D7D5","U+1D7D6","U+1D7D7">>,
       <<"U+1D7D8","U+1D7D9","U+1D7DA","U+1D7DB","U+1D7DC","U+1D7DD","U+1D7DE","U+1D7DF","U+1D7E0","U+1D7E1">>,
       <<"U+1D7E2","U+1D7E3","U+1D7E4","U+1D7E5","U+1D7E6","U+1D7E7","U+1D7E8","U+1D7E9","U+1D7EA","U+1D7EB">>,
       <<"U+1D7EC","U+1D7ED","U+1D7EE","U+1D7EF","U+1D7F0","U+1D7F1","U+1D7F2","U+1D7F3","U+1D7F4","U+1D7F5">>,
       <<"U+1D7F6","U+1D7F7","U+1D7F8","U+1D7F9","U+1D7FA","U+1D7FB","U+1D7FC","U+1D7FD","U+1D7FE","U+1D7FF">>,
       <<"U+1E140","U+1E141","U+1E142","U+1E143","U+1E144","U+1E145","U+1E146","U+1E147","U+1E148","U+1E149">>,
       <<"U+1E2F0","U+1E2F1","U+1E2F2","U+1E2F3","U+1E2F4","U+1E2F5","U+1E2F6","U+1E2F7","U+1E2F8","U+1E2F9">>,
       <<"U+1E950","U+1E951","U+1E952","U+1E953","U+1E954","U+1E955","U+1E956","U+1E957","U+1E958","U+1E959">>,
       <<"U+1FBF0","U+1FBF1","U+1FBF2","U+1FBF3","U+1FBF4","U+1FBF5","U+1FBF6","U+1FBF7","U+1FBF8","U+1FBF9">> >>

IsDecimal(c) == \E r \in 1..Len(DecimalDigits) : \E v \in 1..10 : DecimalDigits[r][v] = c

\* the script of a decimal digit
DecimalScript(c) ==
    CHOOSE r \in 1..Len(DecimalDigits) : \E v \in 1..10 : DecimalDigits[r][v] = c

\* ord(c)
CodePoint(c) ==
    IF \E i \in 1..Len(AsciiPrintable) : AsciiPrintable[i] = c
    THEN 31 + (CHOOSE i \in 1..Len(AsciiPrintable) : AsciiPrintable[i] = c)
    ELSE IF c \in Whitespace
    THEN (CHOOSE w \in WhitespaceCodes : w[1] = c)[2]
    ELSE LET r == DecimalScript(c)
         IN  DecimalZeroCodes[r] + (CHOOSE v \in 1..10 : DecimalDigits[r][v] = c) - 1

\* the UTF-8 bytes of a code point
Utf8(cp) ==
    IF cp < 128 THEN <<cp>>
    ELSE IF cp < 2048 THEN <<192 + (cp \div 64), 128 + (cp % 64)>>
    ELSE IF cp < 65536
    THEN <<224 + (cp \div 4096), 128 + ((cp \div 64) % 64), 128 + (cp % 64)>>
    ELSE <<240 + (cp \div 262144), 128 + ((cp \div 4096) % 64),
           128 + ((cp \div 64) % 64), 128 + (cp % 64)>>

\* str.encode('utf-8')
RECURSIVE Encode(_)
Encode(s) == IF s = <<>> THEN <<>> ELSE Utf8(CodePoint(Head(s))) \o Encode(Tail(s))

\* str.lower() on one character
LowerChar(c) ==
    IF \E i \in 1..26 : UpperCase[i] = c
    THEN LowerCase[CHOOSE i \in 1..26 : UpperCase[i] = c]
    ELSE c

\* str.lower()
Lower(s) == [i \in 1..Len(s) |-> LowerChar(s[i])]

RECURSIVE LStrip(_)
LStrip(s) == IF s # <<>> /\ Head(s) \in Whitespace THEN LStrip(Tail(s)) ELSE s

RECURSIVE RStrip(_)
RStrip(s) ==
    IF s # <<>> /\ s[Len(s)] \in Whitespace
    THEN RStrip(SubSeq(s, 1, Len(s) - 1))
    ELSE s

\* str.strip()
Strip(s) == RStrip(LStrip(s))

AllIn(s, chars) == \A i \in 1..Len(s) : s[i] \in chars

\* ----------------------------------------------------------------- config
Admin == <<"a","d","m","i","n">>
Doctor == <<"d","o","c","t","o","r">>
Nurse == <<"n","u","r","s","e">>
Receptionist == <<"r","e","c","e","p","t","i","o","n","i","s","t">>
Staff == <<"s","t","a","f","f">>

ALLOWED_ROLES == {Admin, Doctor, Nurse, Receptionist, Staff}
MIN_PASSWORD_LENGTH == 6
MIN_PATIENT_AGE == 0
MAX_PATIENT_AGE == 150

\* EMAIL_REGEX_PATTERN  ^[a-zA-Z0-9._%+-]+@[a-zA-Z0-9.-]+\.[a-zA-Z]{2,}$
EmailLocalChars == Letters \cup Digits \cup {".", "_", "%", "+", "-"}
EmailDomainChars == Letters \cup Digits \cup {".", "-"}

\* the pattern up to, but without, the closing $
EmailMatch(s) ==
    \E at \in 1..Len(s) :
        /\ s[at] = "@"
        /\ at > 1
        /\ AllIn(SubSeq(s, 1, at - 1), EmailLocalChars)
        /\ \E dot \in (at + 2)..Len(s) :
              /\ s[dot] = "."
              /\ AllIn(SubSeq(s, at + 1, dot - 1), EmailDomainChars)
              /\ Len(s) - dot >= 2
              /\ AllIn(SubSeq(s, dot + 1, Len(s)), Letters)

\* is_valid_email: re.match; $ matches at the end and before a final newline
is_valid_email(email) ==
    \/ EmailMatch(email)
    \/ /\ email # <<>>
       /\ email[Len(email)] = "\n"
       /\ EmailMatch(SubSeq(email, 1, Len(email) - 1))

\* ------------------------------------------------------------ credentials
\* bcrypt reads the first 72 bytes of the password and ignores the rest
\* (the bcrypt package before 5.0, which raises for a longer password)
BCRYPT_MAX_BYTES == 72

\* User.hash_password: the digest is opaque; it records what was hashed, the
\* UTF-8 bytes of the password up to the 72nd
hash_password(password) ==
    LET bytes == Encode(password)
    IN  <<"bcrypt", IF Len(bytes) > BCRYPT_MAX_BYTES
                    THEN SubSeq(bytes, 1, BCRYPT_MAX_BYTES) ELSE bytes>>

\* User.check_password
check_password(hashed_password, plain_password) ==
    hashed_password = hash_password(plain_password)

\* ------------------------------------------------------------ worker slots
Idle == [pc |-> "idle"]

NoBody == [none |-> TRUE]

\* no response: resp holds it while the request taking the step is unanswered
NoReply == [op |-> "none", kind |-> "none", cause |-> "none", req |-> NoBody, body |-> NoBody]

\* a response
ReplyBody(op, kind, cause, req, body) ==
    [op |-> op, kind |-> kind, cause |-> cause, req |-> req, body |-> body]

Reply(op, kind, cause, req) == ReplyBody(op, kind, cause, req, NoBody)

\* User.query.filter_by(username=username).first()
UserByUsername(username) == {i \in 1..Len(users) : users[i].username = username}

\* User.query.filter_by(email=email).first(): the comparison is exact
UserByEmail(email) == {i \in 1..Len(users) : users[i].email = email}

\* mutant: the columns declared without unique=True
UserUniqueViolation_Unconstrained(row) == FALSE

\* the unique=True columns of User, enforced by the store at commit
UserUniqueViolation(row) ==
    \E i \in 1..Len(users) :
        users[i].email = row.email \/ users[i].username = row.username

\* ---------------------------------------------------------------- register
\* register, lines 88-113: the checks that need no query
RegisterFieldError(data) ==
    IF \/ data.full_name = <<>> \/ data.email = <<>> \/ data.username = <<>>
       \/ data.password = <<>> \/ data.role = <<>>
    THEN "MissingFields"
    ELSE IF ~is_valid_email(data.email) THEN "InvalidEmail"
    ELSE IF Len(data.password) < MIN_PASSWORD_LENGTH THEN "WeakPassword"
    ELSE IF Lower(data.role) \notin ALLOWED_ROLES THEN "InvalidRole"
    ELSE "ok"

\* register, lines 130-137: the row handed to the session
NewUser(data) ==
    [ full_name |-> data.full_name,
      email     |-> Lower(data.email),
      username  |-> data.username,
      password  |-> hash_password(data.password),
      role      |-> Lower(data.role),
      is_active |-> TRUE ]

\* register up to and including the username query (lines 73-119)
register(p, data) ==
    /\ procs[p].pc = "idle"
    /\ LET err == RegisterFieldError(data) IN
       IF err # "ok"
       THEN /\ resp' = Reply("register", err, "none", data)
            /\ procs' = procs
       ELSE IF UserByUsername(data.username) # {}
       THEN /\ resp' = Reply("register", "DuplicateUsername", "none", data)
            /\ procs' = procs
       ELSE /\ procs' = [procs EXCEPT ![p] = [pc |-> "register_email", req |-> data]]
            /\ resp' = NoReply
    /\ UNCHANGED <<users, tokens, patients, records, audit, notifications, now>>

\* register, the e-mail query (lines 124-125)
register_email(p) ==
    /\ procs[p].pc = "register_email"
    /\ IF UserByEmail(procs[p].req.email) # {}
       THEN /\ resp' = Reply("register", "DuplicateEmail", "none", procs[p].req)
            /\ procs' = [procs EXCEPT ![p] = Idle]
       ELSE /\ procs' = [procs EXCEPT ![p].pc = "register_commit"]
            /\ resp' = NoReply
    /\ UNCHANGED <<users, tokens, patients, records, audit, notifications, now>>

\* register, add and commit (lines 130-145); storage_ok is the store's answer
\* apart from the unique constraints
register_commit(p, storage_ok) ==
    /\ procs[p].pc = "register_commit"
    /\ Len(users) < MaxUsers
    /\ LET row == NewUser(procs[p].req) IN
       IF UserUniqueViolation(row)
       THEN /\ users' = users
            /\ resp' = Reply("register", "PersistenceFailure", "unique", procs[p].req)
            /\ procs' = [procs EXCEPT ![p] = Idle]
       ELSE IF ~storage_ok
       THEN /\ users' = users
            /\ resp' = Reply("register", "PersistenceFailure", "storage", procs[p].req)
            /\ procs' = [procs EXCEPT ![p] = Idle]
       ELSE /\ users' = Append(users, row)
            /\ resp' = NoReply
            /\ procs' = [procs EXCEPT ![p] =
                  [pc |-> "register_respond", req |-> procs[p].req, id |-> Len(users) + 1]]
    /\ UNCHANGED <<tokens, patients, records, audit, notifications, now>>

\* register, lines 148-157: the commit expired new_user, and reading it for
\* the response loads the row again
register_respond(p) ==
    /\ procs[p].pc = "register_respond"
    /\ LET row == users[procs[p].id] IN
       resp' = ReplyBody("register", "Created", "none", procs[p].req,
                  [ id |-> procs[p].id, full_name |-> row.full_name, email |-> row.email,
                    username |-> row.username, role |-> row.role ])
    /\ procs' = [procs EXCEPT ![p] = Idle]
    /\ UNCHANGED <<users, tokens, patients, records, audit, notifications, now>>

\* ------------------------------------------------------------------- login
\* mutant: the active flag is looked at before the password
login_ActiveFirst(p, data) ==
    /\ procs[p].pc = "idle"
    /\ LET found == UserByEmail(Lower(data.email)) IN
       IF data.email = <<>> \/ data.password = <<>>
       THEN /\ resp' = Reply("login", "MissingFields", "none", data)
            /\ tokens' = tokens
       ELSE IF ~is_valid_email(data.email)
       THEN /\ resp' = Reply("login", "InvalidEmail", "none", data)
            /\ tokens' = tokens
       ELSE IF found = {}
       THEN /\ resp' = Reply("login", "InvalidCredentials", "none", data)
            /\ tokens' = tokens
       ELSE IF ~users[CHOOSE i \in found : TRUE].is_active
       THEN /\ resp' = Reply("login", "AccountInactive", "none", data)
            /\ tokens' = tokens
       ELSE IF ~check_password(users[CHOOSE i \in found : TRUE].password, data.password)
       THEN /\ resp' = Reply("login", "InvalidCredentials", "none", data)
            /\ tokens' = tokens
       ELSE /\ resp' = Reply("login", "Success", "none", data)
            /\ tokens' = tokens \cup {users[CHOOSE i \in found : TRUE].email}
    /\ UNCHANGED <<users, patients, records, audit, notifications, now, procs>>

\* login (lines 176-225): one query, then the token
login(p, data) ==
    /\ procs[p].pc = "idle"
    /\ LET found == UserByEmail(Lower(data.email)) IN
       IF data.email = <<>> \/ data.password = <<>>
       THEN /\ resp' = Reply("login", "MissingFields", "none", data)
            /\ tokens' = tokens
       ELSE IF ~is_valid_email(data.email)
       THEN /\ resp' = Reply("login", "InvalidEmail", "none", data)
            /\ tokens' = tokens
       ELSE IF \/ found = {}
               \/ ~check_password(users[CHOOSE i \in found : TRUE].password, data.password)
       THEN /\ resp' = Reply("login", "InvalidCredentials", "none", data)
            /\ tokens' = tokens
       ELSE IF ~users[CHOOSE i \in found : TRUE].is_active
       THEN /\ resp' = Reply("login", "AccountInactive", "none", data)
            /\ tokens' = tokens
       ELSE /\ resp' = Reply("login", "Success", "none", data)
            /\ tokens' = tokens \cup {users[CHOOSE i \in found : TRUE].email}
    /\ UNCHANGED <<users, patients, records, audit, notifications, now, procs>>

\* User.is_active is a plain column: the administration outside this service
\* sets it; the service itself only reads it
set_is_active(i, flag) ==
    /\ i \in 1..Len(users)
    /\ users[i].is_active # flag
    /\ users' = [users EXCEPT ![i].is_active = flag]
    /\ resp' = NoReply
    /\ UNCHANGED <<tokens, patients, records, audit, notifications, now, procs>>

\* ----------------------------------------------------------- role gating
\* role_required (decorators.py, lines 31-58): "ok" or the refusal
Authorize(identity, allowed_roles) ==
    LET found == UserByEmail(identity) IN
    IF found = {} THEN "UserNotFound"
    ELSE IF ~users[CHOOSE i \in found : TRUE].is_active THEN "AccountInactive"
    ELSE IF Lower(users[CHOOSE i \in found : TRUE].role)
                \notin {Lower(r) : r \in allowed_roles}
    THEN "Forbidden"
    ELSE "ok"

\* soft-delete open to nurses as well
delete_patient_roles_WithNurse == {Admin, Nurse}

\* the roles each route hands to role_required
create_patient_roles == {Admin, Doctor, Nurse}
update_patient_roles == {Admin, Doctor, Nurse}
delete_patient_roles == {Admin}
restore_patient_roles == {Admin}
create_medical_record_roles == {Admin, Doctor}

\* --------------------------------------------------------------- JSON values
\* a value of the JSON field age: absent, a number or a string
AgeNone == [t |-> "none", i |-> 0, s |-> <<>>]
AgeInt(i) == [t |-> "int", i |-> i, s |-> <<>>]
AgeStr(s) == [t |-> "str", i |-> 0, s |-> s]

\* a JSON null in a text field of a body whose handler does not test the
\* field with "not": no text, and not the empty text
Null == <<"null">>

\* Python's "not age"
Falsy(age) ==
    \/ age.t = "none"
    \/ age.t = "int" /\ age.i = 0
    \/ age.t = "str" /\ age.s = <<>>

\* the value of a decimal digit of any script
DigitValue(c) ==
    (CHOOSE v \in 1..10 : DecimalDigits[DecimalScript(c)][v] = c) - 1

\* the value of a number in digits with single underscores between them
RECURSIVE DigitsValue(_)
DigitsValue(s) ==
    IF s = <<>> THEN 0
    ELSE IF s[Len(s)] = "_" THEN DigitsValue(SubSeq(s, 1, Len(s) - 1))
    ELSE 10 * DigitsValue(SubSeq(s, 1, Len(s) - 1)) + DigitValue(s[Len(s)])

\* the white space int() skips on both sides of the number
RECURSIVE IntStrip(_)
IntStrip(s) ==
    IF s # <<>> /\ Head(s) \in IntWhitespace THEN IntStrip(Tail(s))
    ELSE IF s # <<>> /\ s[Len(s)] \in IntWhitespace
    THEN IntStrip(SubSeq(s, 1, Len(s) - 1))
    ELSE s

\* the digits of a base-10 literal: decimal digits of any script, with
\* single underscores between digits only
IsNumeral(num) ==
    /\ num # <<>>
    /\ \A i \in 1..Len(num) : num[i] = "_" \/ IsDecimal(num[i])
    /\ num[1] # "_"
    /\ num[Len(num)] # "_"
    /\ \A i \in 1..(Len(num) - 1) : ~(num[i] = "_" /\ num[i + 1] = "_")

\* int(age) raises ValueError
IntFails(age) ==
    /\ age.t = "str"
    /\ LET body == IntStrip(age.s)
           num == IF body # <<>> /\ body[1] \in {"+", "-"} THEN Tail(body) ELSE body
       IN  ~IsNumeral(num)

\* int(age) where it does not raise
IntOf(age) ==
    IF age.t = "int" THEN age.i
    ELSE LET body == IntStrip(age.s)
             neg == body[1] = "-"
             num == IF body[1] \in {"+", "-"} THEN Tail(body) ELSE body
         IN  IF neg THEN 0 - DigitsValue(num) ELSE DigitsValue(num)


\* a column that holds NULL, or a value
None == <<>>
Some(v) == <<v>>

\* ------------------------------------------------------------ audit, events
\* the row without the actor
AuditEntry_NoActor(entity_type, entity_id, action, user_email, timestamp, changes) ==
    [ entity_type |-> entity_type, entity_id |-> entity_id, action |-> action,
      user_email |-> <<>>, timestamp |-> timestamp, changes |-> changes ]

\* log_audit (utils.py, lines 21-31): the row it adds
AuditEntry(entity_type, entity_id, action, user_email, timestamp, changes) ==
    [ entity_type |-> entity_type, entity_id |-> entity_id, action |-> action,
      user_email |-> user_email, timestamp |-> timestamp, changes |-> changes ]

\* the answers of the store to the commit of log_audit: it commits ("none"),
\* the INSERT fails in the flush ("flush": the session's transaction is rolled
\* back, every loaded object expired, and the session refuses further SQL
\* until rollback() is called, which log_audit does not do), or the COMMIT
\* itself fails ("commit": the objects stay loaded)
AuditFaults == {"none", "flush", "commit"}

\* the audit trail with every entry but the newest one dropped
log_audit_KeepsLatestOnly(entity_type, entity_id, action, user_email, timestamp, changes, fault) ==
    IF fault = "none"
    THEN <<AuditEntry(entity_type, entity_id, action, user_email, timestamp, changes)>>
    ELSE audit

\* the audit trail with the entry written twice
log_audit_Twice(entity_type, entity_id, action, user_email, timestamp, changes, fault) ==
    IF fault = "none"
    THEN audit \o << AuditEntry(entity_type, entity_id, action, user_email, timestamp, changes),
                     AuditEntry(entity_type, entity_id, action, user_email, timestamp, changes) >>
    ELSE audit

\* log_audit (utils.py, lines 30-33): the audit trail after the commit of
\* the entry built at lines 22-29, whose timestamp is the clock as line 27
\* read it, before the commit; a failure is swallowed
log_audit(entity_type, entity_id, action, user_email, timestamp, changes, fault) ==
    IF fault = "none"
    THEN Append(audit, AuditEntry(entity_type, entity_id, action, user_email, timestamp, changes))
    ELSE audit

\* --------------------------------------------------------- patient registry
\* the query without the filter on is_deleted
PatientBy_IgnoreFlag(id, is_deleted) == id \in 1..Len(patients)

\* the query with the filter fixed to is_deleted=False
PatientBy_Active(id, is_deleted) == id \in 1..Len(patients) /\ ~patients[id].is_deleted

\* Patient.query.filter_by(id=id, is_deleted=...).first()
PatientBy(id, is_deleted) ==
    id \in 1..Len(patients) /\ patients[id].is_deleted = is_deleted

\* create_patient, lines 32-52
CreatePatientError(data) ==
    IF data.name = <<>> \/ Falsy(data.age) \/ data.contact = <<>> THEN "MissingFields"
    ELSE IF IntFails(data.age) THEN "InvalidAgeFormat"
    ELSE IF IntOf(data.age) < MIN_PATIENT_AGE \/ IntOf(data.age) > MAX_PATIENT_AGE
    THEN "InvalidAge"
    ELSE IF Len(Strip(data.name)) < 2 THEN "InvalidName"
    ELSE IF Len(Strip(data.contact)) < 9 THEN "InvalidContact"
    ELSE "ok"

\* create_patient, lines 55-60, with the column defaults of models.Patient:
\* created_at and updated_at each call datetime.utcnow at the INSERT
\* (models.py, lines 22 and 24), created_at first, which reads "at"
NewPatient(data, current_user, at) ==
    [ name       |-> Strip(data.name),
      age        |-> IntOf(data.age),
      contact    |-> Strip(data.contact),
      is_deleted |-> FALSE,
      deleted_at |-> None,
      deleted_by |-> None,
      created_at |-> at,
      created_by |-> current_user,
      updated_at |-> at + 1,
      updated_by |-> None ]

\* the patient as create_patient returns it (lines 79-86), from the row the
\* session holds
PatientBody(id, row) ==
    [ id |-> id, name |-> row.name, age |-> row.age,
      contact |-> row.contact, created_at |-> row.created_at ]

\* the event of lines 72-77, from the row the session holds
PatientCreatedEvent(id, row, current_user) ==
    [ event_type |-> "patient_created", patient_id |-> id,
      patient_name |-> row.name, patient_contact |-> row.contact,
      created_by |-> current_user ]

\* create_patient (routes.py, lines 24-52): the query of the decorator and
\* the checks of the body, which read no table
create_patient(p, identity, data) ==
    /\ procs[p].pc = "idle"
    /\ identity \in tokens
    /\ LET req  == [identity |-> identity, data |-> data]
           auth == Authorize(identity, create_patient_roles)
           err  == CreatePatientError(data)
       IN
       IF auth # "ok"
       THEN /\ resp' = Reply("create_patient", auth, "none", req)
            /\ procs' = procs
       ELSE IF err # "ok"
       THEN /\ resp' = Reply("create_patient", err, "none", req)
            /\ procs' = procs
       ELSE /\ now < MaxClock
            /\ Len(patients) < MaxPatients
            /\ procs' = [procs EXCEPT ![p] = [pc |-> "create_patient_commit", req |-> req]]
            /\ resp' = NoReply
    /\ UNCHANGED <<users, tokens, patients, records, audit, notifications, now>>

\* create_patient, lines 54-62: add and commit; the INSERT reads the clock
\* for created_at and again for updated_at
create_patient_commit(p, storage_ok) ==
    /\ procs[p].pc = "create_patient_commit"
    /\ LET req == procs[p].req IN
       IF ~storage_ok
       THEN /\ UNCHANGED <<patients, now>>
            /\ resp' = Reply("create_patient", "PersistenceFailure", "storage", req)
            /\ procs' = [procs EXCEPT ![p] = Idle]
       ELSE /\ Len(patients) < MaxPatients
            /\ now' = now + 2
            /\ patients' = Append(patients, NewPatient(req.data, req.identity, now + 1))
            /\ procs' = [procs EXCEPT ![p] =
                  [pc |-> "create_patient_refresh", req |-> req, id |-> Len(patients) + 1]]
            /\ resp' = NoReply
    /\ UNCHANGED <<users, tokens, records, audit, notifications>>

\* create_patient, lines 65-68: the commit expired new_patient, and reading
\* it for the arguments of log_audit loads the row again; log_audit then
\* builds the entry, reading the clock for its timestamp (utils.py, line 27)
create_patient_refresh(p) ==
    /\ procs[p].pc = "create_patient_refresh"
    /\ now' = now + 1
    /\ procs' = [procs EXCEPT ![p] =
          [ pc |-> "create_patient_audit", req |-> procs[p].req, id |-> procs[p].id,
            seen |-> patients[procs[p].id], timestamp |-> now + 1 ]]
    /\ resp' = NoReply
    /\ UNCHANGED <<users, tokens, patients, records, audit, notifications>>

\* log_audit and what follows with the notification sent whatever the audit
\* write did
create_patient_audit_AlwaysNotifies(p, fault) ==
    /\ procs[p].pc = "create_patient_audit"
    /\ LET id   == procs[p].id
           req  == procs[p].req
           seen == procs[p].seen
           changes == [name |-> seen.name, age |-> seen.age, contact |-> seen.contact]
       IN
       /\ audit' = log_audit("patient", id, "CREATE", req.identity,
                              procs[p].timestamp, changes, fault)
       /\ IF fault = "none"
          THEN /\ procs' = [procs EXCEPT ![p].pc = "create_patient_respond"]
               /\ notifications' = notifications
               /\ resp' = NoReply
          ELSE /\ procs' = [procs EXCEPT ![p] = Idle]
               /\ notifications' =
                     Append(notifications, PatientCreatedEvent(id, seen, req.identity))
               /\ resp' = IF fault = "flush"
                          THEN Reply("create_patient", "PersistenceFailure", "audit", req)
                          ELSE ReplyBody("create_patient", "Created", "none", req,
                                         PatientBody(id, seen))
    /\ UNCHANGED <<users, tokens, patients, records, now>>

\* create_patient, line 69 (utils.py, lines 30-33) and what follows when the
\* audit write fails: the commit of the entry built before it.  If its commit succeeds, the
\* session expires new_patient once more.  If its INSERT fails, the session
\* is left rolled back and the read of new_patient.id at line 73 raises: the
\* handler answers 500 and sends no notification.  If its COMMIT fails,
\* new_patient stays loaded, and the notification and the response are built
\* from the values loaded before log_audit.
create_patient_audit(p, fault) ==
    /\ procs[p].pc = "create_patient_audit"
    /\ LET id   == procs[p].id
           req  == procs[p].req
           seen == procs[p].seen
           changes == [name |-> seen.name, age |-> seen.age, contact |-> seen.contact]
       IN
       /\ audit' = log_audit("patient", id, "CREATE", req.identity,
                              procs[p].timestamp, changes, fault)
       /\ IF fault = "none"
          THEN /\ procs' = [procs EXCEPT ![p].pc = "create_patient_respond"]
               /\ notifications' = notifications
               /\ resp' = NoReply
          ELSE IF fault = "flush"
          THEN /\ procs' = [procs EXCEPT ![p] = Idle]
               /\ notifications' = notifications
               /\ resp' = Reply("create_patient", "PersistenceFailure", "audit", req)
          ELSE /\ procs' = [procs EXCEPT ![p] = Idle]
               /\ notifications' =
                     Append(notifications, PatientCreatedEvent(id, seen, req.identity))
               /\ resp' = ReplyBody("create_patient", "Created", "none", req,
                                    PatientBody(id, seen))
    /\ UNCHANGED <<users, tokens, patients, records, now>>

\* create_patient, lines 72-88: new_patient is loaded again for the
\* notification, and the response is built from the same values
create_patient_respond(p) ==
    /\ procs[p].pc = "create_patient_respond"
    /\ LET id  == procs[p].id
           req == procs[p].req
           row == patients[id]
       IN
       /\ notifications' = Append(notifications, PatientCreatedEvent(id, row, req.identity))
       /\ resp' = ReplyBody("create_patient", "Created", "none", req, PatientBody(id, row))
    /\ procs' = [procs EXCEPT ![p] = Idle]
    /\ UNCHANGED <<users, tokens, patients, records, audit, now>>

\* an UPDATE that also rewrites the creation stamps of the row
Flush_RewritesCreation(cur, snap, row, at) ==
    LET Pick(new, old, stored) == IF new # old THEN new ELSE stored
        written == row # snap
    IN  [ name       |-> Pick(row.name, snap.name, cur.name),
          age        |-> Pick(row.age, snap.age, cur.age),
          contact    |-> Pick(row.contact, snap.contact, cur.contact),
          is_deleted |-> Pick(row.is_deleted, snap.is_deleted, cur.is_deleted),
          deleted_at |-> Pick(row.deleted_at, snap.deleted_at, cur.deleted_at),
          deleted_by |-> Pick(row.deleted_by, snap.deleted_by, cur.deleted_by),
          created_at |-> IF written THEN at ELSE cur.created_at,
          created_by |-> cur.created_by,
          updated_at |-> IF row.updated_at # snap.updated_at THEN row.updated_at
                         ELSE IF written THEN at ELSE cur.updated_at,
          updated_by |-> Pick(row.updated_by, snap.updated_by, cur.updated_by) ]

\* the UPDATE a commit flushes: the session writes the columns whose value in
\* the object (row) differs from the value it loaded (snap) and leaves the
\* other columns as the store has them (cur); updated_at has
\* onupdate=datetime.utcnow (models.py, line 24), read as "at" when the
\* UPDATE does not set the column itself
Flush(cur, snap, row, at) ==
    LET Pick(new, old, stored) == IF new # old THEN new ELSE stored
        written == row # snap
    IN  [ name       |-> Pick(row.name, snap.name, cur.name),
          age        |-> Pick(row.age, snap.age, cur.age),
          contact    |-> Pick(row.contact, snap.contact, cur.contact),
          is_deleted |-> Pick(row.is_deleted, snap.is_deleted, cur.is_deleted),
          deleted_at |-> Pick(row.deleted_at, snap.deleted_at, cur.deleted_at),
          deleted_by |-> Pick(row.deleted_by, snap.deleted_by, cur.deleted_by),
          created_at |-> cur.created_at,
          created_by |-> cur.created_by,
          updated_at |-> IF row.updated_at # snap.updated_at THEN row.updated_at
                         ELSE IF written THEN at ELSE cur.updated_at,
          updated_by |-> Pick(row.updated_by, snap.updated_by, cur.updated_by) ]

\* a partial update: has names the keys present in the JSON body
UpdateData(has, name, age, contact) ==
    [has |-> has, name |-> name, age |-> age, contact |-> contact]

\* update_patient, lines 208-232: the first check that fails.  None has no
\* strip() (AttributeError) and int(None) raises TypeError; the handler's
\* last except turns either into a 500.
UpdatePatientError(data) ==
    IF "name" \in data.has /\ data.name = Null THEN "AttributeError"
    ELSE IF "name" \in data.has /\ Len(Strip(data.name)) < 2 THEN "InvalidName"
    ELSE IF "age" \in data.has /\ data.age.t = "none" THEN "TypeError"
    ELSE IF "age" \in data.has /\ IntFails(data.age) THEN "InvalidFormat"
    ELSE IF "age" \in data.has /\ (IntOf(data.age) < MIN_PATIENT_AGE
                                    \/ IntOf(data.age) > MAX_PATIENT_AGE)
    THEN "InvalidAge"
    ELSE IF "contact" \in data.has /\ data.contact = Null THEN "AttributeError"
    ELSE IF "contact" \in data.has /\ Len(Strip(data.contact)) < 9 THEN "InvalidContact"
    ELSE "ok"

\* the exceptions of the checks that reach the handler's last except
UpdateRaises == {"AttributeError", "TypeError"}

\* the assignments without the stamps of lines 234-235
UpdatedPatient_NoStamp(snap, data, current_user, at) ==
    [ snap EXCEPT
        !.name       = IF "name" \in data.has THEN Strip(data.name) ELSE @,
        !.age        = IF "age" \in data.has THEN IntOf(data.age) ELSE @,
        !.contact    = IF "contact" \in data.has THEN Strip(data.contact) ELSE @ ]

\* the assignments with the name stored as sent
UpdatedPatient_Untrimmed(snap, data, current_user, at) ==
    [ snap EXCEPT
        !.name       = IF "name" \in data.has THEN data.name ELSE @,
        !.age        = IF "age" \in data.has THEN IntOf(data.age) ELSE @,
        !.contact    = IF "contact" \in data.has THEN Strip(data.contact) ELSE @,
        !.updated_by = Some(current_user),
        !.updated_at = at ]

\* update_patient, lines 208-235: the object after the assignments
UpdatedPatient(snap, data, current_user, at) ==
    [ snap EXCEPT
        !.name       = IF "name" \in data.has THEN Strip(data.name) ELSE @,
        !.age        = IF "age" \in data.has THEN IntOf(data.age) ELSE @,
        !.contact    = IF "contact" \in data.has THEN Strip(data.contact) ELSE @,
        !.updated_by = Some(current_user),
        !.updated_at = at ]

\* "changes" with an entry for every field, changed or not
PatientChanges_AllFields(snap, row) ==
    [c \in {"name", "age", "contact"} |-> [old |-> snap[c], new |-> row[c]]]

\* update_patient: the dict "changes" (lines 205-232), old and new per field
PatientChanges(snap, row) ==
    LET changed == {c \in {"name", "age", "contact"} : row[c] # snap[c]}
    IN  [c \in changed |-> [old |-> snap[c], new |-> row[c]]]

\* update_patient (routes.py, lines 193-196): the query of the decorator
update_patient(p, identity, id, data) ==
    /\ procs[p].pc = "idle"
    /\ identity \in tokens
    /\ LET req  == [identity |-> identity, id |-> id, data |-> data]
           auth == Authorize(identity, update_patient_roles)
       IN
       IF auth # "ok"
       THEN /\ resp' = Reply("update_patient", auth, "none", req)
            /\ procs' = procs
       ELSE /\ procs' = [procs EXCEPT ![p] = [pc |-> "update_patient_select", req |-> req]]
            /\ resp' = NoReply
    /\ UNCHANGED <<users, tokens, patients, records, audit, notifications, now>>

\* the body of update_patient that commits the name it assigned before a
\* later field failed its check
update_patient_select_PartialCommit(p) ==
    /\ procs[p].pc = "update_patient_select"
    /\ LET req  == procs[p].req
           id   == req.id
           data == req.data
           err  == UpdatePatientError(data)
       IN
       IF ~PatientBy(id, FALSE)
       THEN /\ resp' = Reply("update_patient", "NotFound", "none", req)
            /\ procs' = [procs EXCEPT ![p] = Idle]
            /\ UNCHANGED <<now, patients>>
       ELSE IF err # "ok"
       THEN /\ resp' = Reply("update_patient",
                              IF err \in UpdateRaises THEN "PersistenceFailure" ELSE err,
                              IF err \in UpdateRaises THEN "exception" ELSE "none", req)
            /\ patients' = IF "name" \in data.has /\ err # "InvalidName"
                               /\ data.name # Null
                            THEN [patients EXCEPT ![id].name = Strip(data.name)]
                            ELSE patients
            /\ procs' = [procs EXCEPT ![p] = Idle]
            /\ now' = now
       ELSE /\ now < MaxClock
            /\ now' = now + 1
            /\ procs' = [procs EXCEPT ![p] =
                  [ pc |-> "update_patient_commit", req |-> req, id |-> id,
                    snap |-> patients[id],
                    row |-> UpdatedPatient(patients[id], data, req.identity, now + 1) ]]
            /\ resp' = NoReply
            /\ patients' = patients
    /\ UNCHANGED <<users, tokens, records, audit, notifications>>

\* update_patient, lines 198-235: the query for the patient, the checks and
\* the assignments to the loaded object; line 235 reads the clock
update_patient_select(p) ==
    /\ procs[p].pc = "update_patient_select"
    /\ LET req  == procs[p].req
           id   == req.id
           err  == UpdatePatientError(req.data)
       IN
       IF ~PatientBy(id, FALSE)
       THEN /\ resp' = Reply("update_patient", "NotFound", "none", req)
            /\ procs' = [procs EXCEPT ![p] = Idle]
            /\ now' = now
       ELSE IF err \in UpdateRaises
       THEN /\ resp' = Reply("update_patient", "PersistenceFailure", "exception", req)
            /\ procs' = [procs EXCEPT ![p] = Idle]
            /\ now' = now
       ELSE IF err # "ok"
       THEN /\ resp' = Reply("update_patient", err, "none", req)
            /\ procs' = [procs EXCEPT ![p] = Idle]
            /\ now' = now
       ELSE /\ now < MaxClock
            /\ now' = now + 1
            /\ procs' = [procs EXCEPT ![p] =
                  [ pc |-> "update_patient_commit", req |-> req, id |-> id,
                    snap |-> patients[id],
                    row |-> UpdatedPatient(patients[id], req.data, req.identity, now + 1) ]]
            /\ resp' = NoReply
    /\ UNCHANGED <<users, tokens, patients, records, audit, notifications>>

\* the patient as update_patient returns it (lines 243-252), from the row
\* the session holds
UpdatedBody(id, row) ==
    [ id |-> id, name |-> row.name, age |-> row.age, contact |-> row.contact,
      updated_at |-> row.updated_at ]

\* update_patient, lines 237-240: commit; the session expires the patient
update_patient_commit(p, storage_ok) ==
    /\ procs[p].pc = "update_patient_commit"
    /\ LET id == procs[p].id
           after == Flush(patients[id], procs[p].snap, procs[p].row, now)
       IN
       IF ~storage_ok
       THEN /\ patients' = patients
            /\ resp' = Reply("update_patient", "PersistenceFailure", "storage", procs[p].req)
            /\ procs' = [procs EXCEPT ![p] = Idle]
       ELSE /\ patients' = [patients EXCEPT ![id] = after]
            /\ procs' = [procs EXCEPT ![p].pc =
                  IF DOMAIN PatientChanges(procs[p].snap, procs[p].row) # {}
                  THEN "update_patient_refresh" ELSE "update_patient_respond"]
            /\ resp' = NoReply
    /\ UNCHANGED <<users, tokens, records, audit, notifications, now>>

\* update_patient, line 241: reading patient.id for log_audit loads the row
\* again; log_audit then builds the entry, reading the clock for its
\* timestamp (utils.py, line 27)
update_patient_refresh(p) ==
    /\ procs[p].pc = "update_patient_refresh"
    /\ now' = now + 1
    /\ procs' = [procs EXCEPT ![p] =
          [ pc |-> "update_patient_audit", req |-> procs[p].req, id |-> procs[p].id,
            snap |-> procs[p].snap, row |-> procs[p].row,
            seen |-> patients[procs[p].id], timestamp |-> now + 1 ]]
    /\ resp' = NoReply
    /\ UNCHANGED <<users, tokens, patients, records, audit, notifications>>

\* update_patient, line 241 (utils.py, lines 30-33) and what follows when
\* the audit write fails: the commit of the entry with the dict "changes".  If its INSERT fails, the read of
\* patient.id at line 246 raises and the handler answers 500; if its COMMIT
\* fails, the patient stays loaded and the response is built from the
\* values loaded before log_audit.
update_patient_audit(p, fault) ==
    /\ procs[p].pc = "update_patient_audit"
    /\ LET id == procs[p].id IN
       /\ audit' = log_audit("patient", id, "UPDATE", procs[p].req.identity,
                              procs[p].timestamp,
                              PatientChanges(procs[p].snap, procs[p].row), fault)
       /\ IF fault = "none"
          THEN /\ procs' = [procs EXCEPT ![p].pc = "update_patient_respond"]
               /\ resp' = NoReply
          ELSE /\ procs' = [procs EXCEPT ![p] = Idle]
               /\ resp' = IF fault = "flush"
                          THEN Reply("update_patient", "PersistenceFailure", "audit",
                                     procs[p].req)
                          ELSE ReplyBody("update_patient", "Success", "none", procs[p].req,
                                         UpdatedBody(id, procs[p].seen))
    /\ UNCHANGED <<users, tokens, patients, records, notifications, now>>

\* update_patient, lines 243-252: the patient is loaded again for the
\* response
update_patient_respond(p) ==
    /\ procs[p].pc = "update_patient_respond"
    /\ resp' = ReplyBody("update_patient", "Success", "none", procs[p].req,
                         UpdatedBody(procs[p].id, patients[procs[p].id]))
    /\ procs' = [procs EXCEPT ![p] = Idle]
    /\ UNCHANGED <<users, tokens, patients, records, audit, notifications, now>>

\* the assignments of a soft-delete that forgets deleted_by
DeletedPatient_NoDeletedBy(snap, current_user, at) ==
    [ snap EXCEPT !.is_deleted = TRUE, !.deleted_at = Some(at) ]

\* delete_patient, lines 276-278: the object after the assignments
DeletedPatient(snap, current_user, at) ==
    [ snap EXCEPT !.is_deleted = TRUE,
                  !.deleted_at = Some(at),
                  !.deleted_by = Some(current_user) ]

\* delete_patient (routes.py, lines 264-267): the query of the decorator
delete_patient(p, identity, id) ==
    /\ procs[p].pc = "idle"
    /\ identity \in tokens
    /\ LET req  == [identity |-> identity, id |-> id]
           auth == Authorize(identity, delete_patient_roles)
       IN
       IF auth # "ok"
       THEN /\ resp' = Reply("delete_patient", auth, "none", req)
            /\ procs' = procs
       ELSE /\ procs' = [procs EXCEPT ![p] = [pc |-> "delete_patient_select", req |-> req]]
            /\ resp' = NoReply
    /\ UNCHANGED <<users, tokens, patients, records, audit, notifications, now>>

\* delete_patient, lines 269-278: the query for the patient and the
\* assignments to the loaded object; line 277 reads the clock
delete_patient_select(p) ==
    /\ procs[p].pc = "delete_patient_select"
    /\ LET req == procs[p].req
           id  == req.id
       IN
       IF ~PatientBy(id, FALSE)
       THEN /\ resp' = Reply("delete_patient", "NotFound", "none", req)
            /\ procs' = [procs EXCEPT ![p] = Idle]
            /\ now' = now
       ELSE /\ now < MaxClock
            /\ now' = now + 1
            /\ procs' = [procs EXCEPT ![p] =
                  [ pc |-> "delete_patient_commit", req |-> req, id |-> id,
                    snap |-> patients[id],
                    row |-> DeletedPatient(patients[id], req.identity, now + 1) ]]
            /\ resp' = NoReply
    /\ UNCHANGED <<users, tokens, patients, records, audit, notifications>>

\* the commit of a soft-delete that reports a failure and writes the row
\* all the same
delete_patient_commit_NoRollback(p, storage_ok) ==
    /\ procs[p].pc = "delete_patient_commit"
    /\ LET id == procs[p].id IN
       /\ now' = now + 1
       /\ patients' = [patients EXCEPT ![id] =
                         Flush(patients[id], procs[p].snap, procs[p].row, now + 1)]
       /\ IF ~storage_ok
          THEN /\ resp' = Reply("delete_patient", "PersistenceFailure", "storage", procs[p].req)
               /\ procs' = [procs EXCEPT ![p] = Idle]
          ELSE /\ procs' = [procs EXCEPT ![p].pc = "delete_patient_refresh"]
               /\ resp' = NoReply
    /\ UNCHANGED <<users, tokens, records, audit, notifications>>

\* the commit of a soft-delete that removes the records of the patient, as
\* the cascade of a hard delete would
delete_patient_commit_Cascade(p, storage_ok) ==
    /\ procs[p].pc = "delete_patient_commit"
    /\ LET id == procs[p].id IN
       IF ~storage_ok
       THEN /\ UNCHANGED <<patients, records, now>>
            /\ resp' = Reply("delete_patient", "PersistenceFailure", "storage", procs[p].req)
            /\ procs' = [procs EXCEPT ![p] = Idle]
       ELSE /\ now' = now + 1
            /\ patients' = [patients EXCEPT ![id] =
                              Flush(patients[id], procs[p].snap, procs[p].row, now + 1)]
            /\ records' = SelectSeq(records, LAMBDA r : r.patient_id # id)
            /\ procs' = [procs EXCEPT ![p].pc = "delete_patient_refresh"]
            /\ resp' = NoReply
    /\ UNCHANGED <<users, tokens, audit, notifications>>

\* delete_patient, line 280: commit; the UPDATE sets updated_at through its
\* onupdate (models.py, line 24), and the session expires the patient
delete_patient_commit(p, storage_ok) ==
    /\ procs[p].pc = "delete_patient_commit"
    /\ LET id == procs[p].id IN
       IF ~storage_ok
       THEN /\ UNCHANGED <<patients, now>>
            /\ resp' = Reply("delete_patient", "PersistenceFailure", "storage", procs[p].req)
            /\ procs' = [procs EXCEPT ![p] = Idle]
       ELSE /\ now' = now + 1
            /\ patients' = [patients EXCEPT ![id] =
                              Flush(patients[id], procs[p].snap, procs[p].row, now + 1)]
            /\ procs' = [procs EXCEPT ![p].pc = "delete_patient_refresh"]
            /\ resp' = NoReply
    /\ UNCHANGED <<users, tokens, records, audit, notifications>>

\* delete_patient, lines 283-284: reading patient.id loads the row again,
\* and the deleted_at it holds is formatted for log_audit; None has no
\* isoformat(), which ends in the handler's except.  log_audit then builds
\* the entry, reading the clock for its timestamp (utils.py, line 27)
delete_patient_refresh(p) ==
    /\ procs[p].pc = "delete_patient_refresh"
    /\ LET id == procs[p].id IN
       IF patients[id].deleted_at = None
       THEN /\ resp' = Reply("delete_patient", "PersistenceFailure", "exception", procs[p].req)
            /\ procs' = [procs EXCEPT ![p] = Idle]
            /\ now' = now
       ELSE /\ now' = now + 1
            /\ procs' = [procs EXCEPT ![p] =
                  [ pc |-> "delete_patient_audit", req |-> procs[p].req, id |-> id,
                    snap |-> procs[p].snap, row |-> procs[p].row,
                    seen |-> patients[id], timestamp |-> now + 1 ]]
            /\ resp' = NoReply
    /\ UNCHANGED <<users, tokens, patients, records, audit, notifications>>

\* delete_patient, lines 285-290 (utils.py, lines 30-33): the commit of the
\* entry with the deleted_at loaded before it, then the response, which
\* reads nothing
delete_patient_audit(p, fault) ==
    /\ procs[p].pc = "delete_patient_audit"
    /\ audit' = log_audit("patient", procs[p].id, "DELETE", procs[p].req.identity,
                           procs[p].timestamp,
                           [deleted_at |-> procs[p].seen.deleted_at[1]], fault)
    /\ resp' = Reply("delete_patient", "Success", "none", procs[p].req)
    /\ procs' = [procs EXCEPT ![p] = Idle]
    /\ UNCHANGED <<users, tokens, patients, records, notifications, now>>

\* restore_patient, lines 308-312: the object after the assignments
RestoredPatient(snap, current_user, at) ==
    [ snap EXCEPT !.is_deleted = FALSE,
                  !.deleted_at = None,
                  !.deleted_by = None,
                  !.updated_by = Some(current_user),
                  !.updated_at = at ]

\* restore_patient (routes.py, lines 296-299): the query of the decorator
restore_patient(p, identity, id) ==
    /\ procs[p].pc = "idle"
    /\ identity \in tokens
    /\ LET req  == [identity |-> identity, id |-> id]
           auth == Authorize(identity, restore_patient_roles)
       IN
       IF auth # "ok"
       THEN /\ resp' = Reply("restore_patient", auth, "none", req)
            /\ procs' = procs
       ELSE /\ procs' = [procs EXCEPT ![p] = [pc |-> "restore_patient_select", req |-> req]]
            /\ resp' = NoReply
    /\ UNCHANGED <<users, tokens, patients, records, audit, notifications, now>>

\* restore_patient, lines 301-312: the query for a soft-deleted row and the
\* assignments to the loaded object; line 312 reads the clock
restore_patient_select(p) ==
    /\ procs[p].pc = "restore_patient_select"
    /\ LET req == procs[p].req
           id  == req.id
       IN
       IF ~PatientBy(id, TRUE)
       THEN /\ resp' = Reply("restore_patient", "NotFound", "none", req)
            /\ procs' = [procs EXCEPT ![p] = Idle]
            /\ now' = now
       ELSE /\ now < MaxClock
            /\ now' = now + 1
            /\ procs' = [procs EXCEPT ![p] =
                  [ pc |-> "restore_patient_commit", req |-> req, id |-> id,
                    snap |-> patients[id],
                    row |-> RestoredPatient(patients[id], req.identity, now + 1) ]]
            /\ resp' = NoReply
    /\ UNCHANGED <<users, tokens, patients, records, audit, notifications>>

\* restore_patient, line 314: commit; the session expires the patient
restore_patient_commit(p, storage_ok) ==
    /\ procs[p].pc = "restore_patient_commit"
    /\ LET id == procs[p].id IN
       IF ~storage_ok
       THEN /\ patients' = patients
            /\ resp' = Reply("restore_patient", "PersistenceFailure", "storage", procs[p].req)
            /\ procs' = [procs EXCEPT ![p] = Idle]
       ELSE /\ patients' = [patients EXCEPT ![id] =
                              Flush(patients[id], procs[p].snap, procs[p].row, now)]
            /\ procs' = [procs EXCEPT ![p].pc = "restore_patient_refresh"]
            /\ resp' = NoReply
    /\ UNCHANGED <<users, tokens, records, audit, notifications, now>>

\* restore_patient, lines 317-318: reading patient.id loads the row again,
\* and the updated_at it holds is formatted for log_audit; log_audit then
\* builds the entry, reading the clock for its timestamp (utils.py, line 27)
restore_patient_refresh(p) ==
    /\ procs[p].pc = "restore_patient_refresh"
    /\ now' = now + 1
    /\ procs' = [procs EXCEPT ![p] =
          [ pc |-> "restore_patient_audit", req |-> procs[p].req, id |-> procs[p].id,
            snap |-> procs[p].snap, row |-> procs[p].row,
            seen |-> patients[procs[p].id], timestamp |-> now + 1 ]]
    /\ resp' = NoReply
    /\ UNCHANGED <<users, tokens, patients, records, audit, notifications>>

\* restore_patient, lines 319-324 (utils.py, lines 30-33): the commit of the
\* entry with the updated_at loaded before it, then the response, which
\* reads nothing
restore_patient_audit(p, fault) ==
    /\ procs[p].pc = "restore_patient_audit"
    /\ audit' = log_audit("patient", procs[p].id, "RESTORE", procs[p].req.identity,
                           procs[p].timestamp,
                           [restored_at |-> procs[p].seen.updated_at], fault)
    /\ resp' = Reply("restore_patient", "Success", "none", procs[p].req)
    /\ procs' = [procs EXCEPT ![p] = Idle]
    /\ UNCHANGED <<users, tokens, patients, records, notifications, now>>

\* get_patient (routes.py, lines 169-187)
get_patient(p, identity, id) ==
    /\ procs[p].pc = "idle"
    /\ identity \in tokens
    /\ LET req == [identity |-> identity, id |-> id] IN
       IF ~PatientBy(id, FALSE)
       THEN resp' = Reply("get_patient", "NotFound", "none", req)
       ELSE resp' = ReplyBody("get_patient", "Success", "none", req,
                       [ id |-> id, name |-> patients[id].name, age |-> patients[id].age,
                         contact |-> patients[id].contact,
                         created_at |-> patients[id].created_at,
                         created_by |-> patients[id].created_by,
                         updated_at |-> patients[id].updated_at,
                         updated_by |-> patients[id].updated_by ])
    /\ UNCHANGED <<users, tokens, patients, records, audit, notifications, now, procs>>

\* ------------------------------------------------------------ list, search
\* SQL LIKE with the default escape character: % any run, _ any one character
RECURSIVE LikeMatch(_, _)
LikeMatch(s, pat) ==
    IF pat = <<>> THEN s = <<>>
    ELSE IF Head(pat) = "%"
    THEN LikeMatch(s, Tail(pat)) \/ (s # <<>> /\ LikeMatch(Tail(s), pat))
    ELSE IF Head(pat) = "_"
    THEN s # <<>> /\ LikeMatch(Tail(s), Tail(pat))
    ELSE IF Head(pat) = "\\" /\ Len(pat) >= 2
    THEN s # <<>> /\ Head(s) = pat[2] /\ LikeMatch(Tail(s), Tail(Tail(pat)))
    ELSE s # <<>> /\ Head(s) = Head(pat) /\ LikeMatch(Tail(s), Tail(pat))

\* Patient.name.ilike(f'%{search}%')
NameILike(name, search) == LikeMatch(Lower(name), Lower(<<"%">> \o search \o <<"%">>))

\* a query of get_patients: the request arguments after their conversion
ListQuery(page, per_page, search, include_deleted) ==
    [page |-> page, per_page |-> per_page, search |-> search,
     include_deleted |-> include_deleted]

\* the query without the filter on is_deleted
Matching_IgnoringDeleted(q) ==
    { id \in 1..Len(patients) : q.search # <<>> => NameILike(patients[id].name, q.search) }

\* get_patients, lines 105-114: the ids the filtered query selects
Matching(q) ==
    { id \in 1..Len(patients) :
        /\ (Lower(q.include_deleted) # <<"t","r","u","e">> => ~patients[id].is_deleted)
        /\ (q.search # <<>> => NameILike(patients[id].name, q.search)) }

\* the orders in which the store may return a set of rows (no ORDER BY)
Orders(S) ==
    { o \in [1..Cardinality(S) -> S] : {o[i] : i \in 1..Cardinality(S)} = S }

\* the page size without the clamp of line 103
PerPage_Unclamped(q) == IF q.per_page < 1 THEN 20 ELSE q.per_page

\* line 103 and paginate(error_out=False): the page size and the page used
PerPage(q) ==
    LET clamped == IF q.per_page < 100 THEN q.per_page ELSE 100
    IN  IF clamped < 1 THEN 20 ELSE clamped

Page(q) == IF q.page < 1 THEN 1 ELSE q.page

\* Pagination.pages: ceil(total / per_page)
Pages(total, per_page) ==
    IF total = 0 THEN 0 ELSE (total + per_page - 1) \div per_page

\* get_patients, lines 121-128: one item
ListItem(id) ==
    [ id |-> id, name |-> patients[id].name, age |-> patients[id].age,
      contact |-> patients[id].contact, created_at |-> patients[id].created_at,
      is_deleted |-> patients[id].is_deleted ]

\* get_patients, lines 116-117: LIMIT per_page OFFSET (page - 1) * per_page
\* over the rows in the order the store returns them
PageItems(q, order) ==
    LET total  == Len(order)
        offset == (Page(q) - 1) * PerPage(q)
        last   == IF offset + PerPage(q) < total THEN offset + PerPage(q) ELSE total
        shown  == SubSeq(order, offset + 1, last)
    IN  [i \in 1..Len(shown) |-> ListItem(shown[i])]

\* get_patients, lines 119-138: the items and the metadata of the Pagination
ListBody(q, items, total) ==
    [ patients    |-> items,
      page        |-> Page(q),
      per_page    |-> PerPage(q),
      total_pages |-> Pages(total, PerPage(q)),
      total_items |-> total,
      has_next    |-> Page(q) < Pages(total, PerPage(q)),
      has_prev    |-> Page(q) > 1 ]

\* get_patients (routes.py, lines 97-116): the arguments and the first query
\* of paginate, which selects the items of the page
get_patients(p, identity, q, order) ==
    /\ procs[p].pc = "idle"
    /\ identity \in tokens
    /\ order \in Orders(Matching(q))
    /\ procs' = [procs EXCEPT ![p] =
          [ pc |-> "get_patients_count", req |-> [identity |-> identity, q |-> q],
            items |-> PageItems(q, order) ]]
    /\ resp' = NoReply
    /\ UNCHANGED <<users, tokens, patients, records, audit, notifications, now>>

\* get_patients, lines 116-139: the second query of paginate, which counts
\* the rows the filters select, and the response
get_patients_count(p) ==
    /\ procs[p].pc = "get_patients_count"
    /\ resp' = ReplyBody("get_patients", "Success", "none", procs[p].req,
                  ListBody(procs[p].req.q, procs[p].items,
                           Cardinality(Matching(procs[p].req.q))))
    /\ procs' = [procs EXCEPT ![p] = Idle]
    /\ UNCHANGED <<users, tokens, patients, records, audit, notifications, now>>

\* ------------------------------------------------------ medical record ledger
\* create_medical_record (routes.py, lines 330-333): the query of the
\* decorator
create_medical_record(p, identity, patient_id, data) ==
    /\ procs[p].pc = "idle"
    /\ identity \in tokens
    /\ LET req  == [identity |-> identity, id |-> patient_id, data |-> data]
           auth == Authorize(identity, create_medical_record_roles)
       IN
       IF auth # "ok"
       THEN /\ resp' = Reply("create_medical_record", auth, "none", req)
            /\ procs' = procs
       ELSE /\ procs' = [procs EXCEPT ![p] =
                  [pc |-> "create_medical_record_select", req |-> req]]
            /\ resp' = NoReply
    /\ UNCHANGED <<users, tokens, patients, records, audit, notifications, now>>

\* create_medical_record, lines 335-347: the query for the patient and the
\* check of the diagnosis
create_medical_record_select(p) ==
    /\ procs[p].pc = "create_medical_record_select"
    /\ LET req == procs[p].req IN
       IF ~PatientBy(req.id, FALSE)
       THEN /\ resp' = Reply("create_medical_record", "NotFound", "none", req)
            /\ procs' = [procs EXCEPT ![p] = Idle]
       ELSE IF req.data.diagnosis = <<>>
       THEN /\ resp' = Reply("create_medical_record", "MissingFields", "none", req)
            /\ procs' = [procs EXCEPT ![p] = Idle]
       ELSE /\ now < MaxClock
            /\ Len(records) < MaxRecords
            /\ procs' = [procs EXCEPT ![p] =
                  [pc |-> "create_medical_record_commit", req |-> req, id |-> req.id]]
            /\ resp' = NoReply
    /\ UNCHANGED <<users, tokens, patients, records, audit, notifications, now>>

\* create_medical_record, lines 350-358: add and commit; visit_date and
\* created_at each call datetime.utcnow at the INSERT (models.py, lines 66
\* and 69), visit_date first
create_medical_record_commit(p, storage_ok) ==
    /\ procs[p].pc = "create_medical_record_commit"
    /\ LET req == procs[p].req IN
       IF ~storage_ok
       THEN /\ UNCHANGED <<records, now>>
            /\ resp' = Reply("create_medical_record", "PersistenceFailure", "storage", req)
            /\ procs' = [procs EXCEPT ![p] = Idle]
       ELSE /\ Len(records) < MaxRecords
            /\ now' = now + 2
            /\ records' = Append(records,
                  [ patient_id |-> req.id, diagnosis |-> req.data.diagnosis,
                    prescription |-> req.data.prescription, notes |-> req.data.notes,
                    visit_date |-> now + 1, created_at |-> now + 2,
                    created_by |-> req.identity ])
            /\ procs' = [procs EXCEPT ![p] =
                  [pc |-> "create_medical_record_refresh", req |-> req, id |-> Len(records) + 1]]
            /\ resp' = NoReply
    /\ UNCHANGED <<users, tokens, patients, audit, notifications>>

\* the record as create_medical_record returns it (lines 366-377), from the
\* row the session holds
RecordBody(id, row) ==
    [ id |-> id, patient_id |-> row.patient_id, diagnosis |-> row.diagnosis,
      prescription |-> row.prescription, notes |-> row.notes,
      visit_date |-> row.visit_date, created_by |-> row.created_by ]

\* create_medical_record, line 361: the commit expired the record, and
\* reading record.id for log_audit loads the row again; log_audit then
\* builds the entry, reading the clock for its timestamp (utils.py, line 27)
create_medical_record_refresh(p) ==
    /\ procs[p].pc = "create_medical_record_refresh"
    /\ now' = now + 1
    /\ procs' = [procs EXCEPT ![p] =
          [ pc |-> "create_medical_record_audit", req |-> procs[p].req, id |-> procs[p].id,
            seen |-> records[procs[p].id], timestamp |-> now + 1 ]]
    /\ resp' = NoReply
    /\ UNCHANGED <<users, tokens, patients, records, audit, notifications>>

\* create_medical_record, lines 361-364 (utils.py, lines 30-33) and what
\* follows when the audit write fails: the commit of the entry.  If its
\* INSERT fails, the read of record.id at line 369 raises and the handler
\* answers 500; if its COMMIT fails, the record stays loaded and the
\* response is built from the values loaded before log_audit.
create_medical_record_audit(p, fault) ==
    /\ procs[p].pc = "create_medical_record_audit"
    /\ LET id  == procs[p].id
           req == procs[p].req
       IN
       /\ audit' = log_audit("medical_record", id, "CREATE", req.identity,
                              procs[p].timestamp,
                              [patient_id |-> req.id, diagnosis |-> req.data.diagnosis], fault)
       /\ IF fault = "none"
          THEN /\ procs' = [procs EXCEPT ![p].pc = "create_medical_record_respond"]
               /\ resp' = NoReply
          ELSE /\ procs' = [procs EXCEPT ![p] = Idle]
               /\ resp' = IF fault = "flush"
                          THEN Reply("create_medical_record", "PersistenceFailure", "audit", req)
                          ELSE ReplyBody("create_medical_record", "Created", "none", req,
                                         RecordBody(id, procs[p].seen))
    /\ UNCHANGED <<users, tokens, patients, records, notifications, now>>

\* create_medical_record, lines 366-377: the record is loaded again for the
\* response
create_medical_record_respond(p) ==
    /\ procs[p].pc = "create_medical_record_respond"
    /\ resp' = ReplyBody("create_medical_record", "Created", "none", procs[p].req,
                         RecordBody(procs[p].id, records[procs[p].id]))
    /\ procs' = [procs EXCEPT ![p] = Idle]
    /\ UNCHANGED <<users, tokens, patients, records, audit, notifications, now>>

\* order_by(MedicalRecord.visit_date.desc()) over a set of record ids
RECURSIVE ByVisitDateDesc(_)
ByVisitDateDesc(S) ==
    IF S = {} THEN <<>>
    ELSE LET first == CHOOSE r \in S : \A o \in S : records[o].visit_date <= records[r].visit_date
         IN  <<first>> \o ByVisitDateDesc(S \ {first})

\* get_medical_records (routes.py, lines 386-393): the query for the patient
get_medical_records(p, identity, patient_id) ==
    /\ procs[p].pc = "idle"
    /\ identity \in tokens
    /\ LET req == [identity |-> identity, id |-> patient_id] IN
       IF ~PatientBy(patient_id, FALSE)
       THEN /\ resp' = Reply("get_medical_records", "NotFound", "none", req)
            /\ procs' = procs
       ELSE /\ procs' = [procs EXCEPT ![p] =
                  [ pc |-> "get_medical_records_select", req |-> req, id |-> patient_id,
                    seen |-> patients[patient_id] ]]
            /\ resp' = NoReply
    /\ UNCHANGED <<users, tokens, patients, records, audit, notifications, now>>

\* get_medical_records, lines 395-413: the query for the records, and the
\* response with the patient as the first query loaded it
get_medical_records_select(p) ==
    /\ procs[p].pc = "get_medical_records_select"
    /\ LET id  == procs[p].id
           ids == ByVisitDateDesc({r \in 1..Len(records) : records[r].patient_id = id})
       IN
       resp' = ReplyBody("get_medical_records", "Success", "none", procs[p].req,
                  [ patient |-> [id |-> id, name |-> procs[p].seen.name],
                    records |-> [i \in 1..Len(ids) |->
                        [ id |-> ids[i], diagnosis |-> records[ids[i]].diagnosis,
                          prescription |-> records[ids[i]].prescription,
                          notes |-> records[ids[i]].notes,
                          visit_date |-> records[ids[i]].visit_date,
                          created_by |-> records[ids[i]].created_by ]] ])
    /\ procs' = [procs EXCEPT ![p] = Idle]
    /\ UNCHANGED <<users, tokens, patients, records, audit, notifications, now>>

\* ------------------------------------------------------------ request data
EmailA == <<"a","@","x",".","c","o">>
EmailAUpper == <<"A","@","x",".","c","o">>
EmailB == <<"b","@","x",".","c","o">>
EmailBad == <<"a","x",".","c","o">>
Secret == <<"s","e","c","r","e","t">>
Short == <<"s","e","c","r","e">>
Wrong == <<"s","e","c","r","e","T">>

\* two passwords of 73 bytes that differ in the last byte alone: 24
\* characters of three bytes each, and a letter
LongSecret == [i \in 1..25 |-> IF i = 25 THEN "x" ELSE "U+3000"]
LongWrong == [i \in 1..25 |-> IF i = 25 THEN "y" ELSE "U+3000"]

\* the bodies of POST /register: each check passes or fails; one user
\* chooses the password of 73 bytes
RegisterInputs ==
    [ full_name : {<<"A","l">>},
      email     : {EmailA, EmailAUpper, EmailB, EmailBad},
      username  : {<<"a">>, <<"b">>, <<>>},
      password  : {Secret, Short},
      role      : {<<"D","o","c","t","o","r">>, <<"b","o","s","s">>} ]
    \cup { [ full_name |-> <<"A","l">>, email |-> EmailB, username |-> <<"b">>,
             password |-> LongSecret, role |-> <<"D","o","c","t","o","r">> ] }

LoginInputs ==
    [ email    : {EmailA, EmailAUpper, EmailB, EmailBad},
      password : {Secret, Wrong, LongWrong, <<>>} ]

\* ----------------------------------------------------------- specifications
InitEmpty ==
    /\ users = <<>>
    /\ tokens = {}
    /\ patients = <<>>
    /\ records = <<>>
    /\ audit = <<>>
    /\ notifications = <<>>
    /\ now = 0
    /\ procs = [p \in Procs |-> Idle]
    /\ resp = NoReply

\* the requests of the concurrent registrations: the fields are well formed
\* but for the role, and collide in e-mail, in username or in neither
RegisterRaceInputs ==
    [ full_name : {<<"A","l">>},
      email     : {EmailA, EmailAUpper, EmailB},
      username  : {<<"a">>, <<"b">>},
      password  : {Secret},
      role      : {<<"D","o","c","t","o","r">>, <<"b","o","s","s">>} ]

\* registration by concurrent requests
NextReg ==
    \/ \E p \in Procs, data \in RegisterRaceInputs : register(p, data)
    \/ \E p \in Procs : register_email(p)
    \/ \E p \in Procs, storage_ok \in BOOLEAN : register_commit(p, storage_ok)
    \/ \E p \in Procs : register_respond(p)

SpecReg == InitEmpty /\ [][NextReg]_vars

\* registration, login and the active flag, one request at a time
NextAuth ==
    \/ \E data \in RegisterInputs : register(1, data)
    \/ register_email(1)
    \/ \E storage_ok \in BOOLEAN : register_commit(1, storage_ok)
    \/ register_respond(1)
    \/ \E data \in LoginInputs : login(1, data)
    \/ \E i \in 1..MaxUsers, flag \in BOOLEAN : set_is_active(i, flag)

SpecAuth == InitEmpty /\ [][NextAuth]_vars

\* the registry starts with these users registered and logged in: one of
\* each role, an administrator deactivated after the login, and a token whose
\* user was removed since
AdminEmail == <<"r","@","x",".","c","o">>
DoctorEmail == <<"d","@","x",".","c","o">>
NurseEmail == <<"n","@","x",".","c","o">>
ReceptionistEmail == <<"c","@","x",".","c","o">>
StaffEmail == <<"s","@","x",".","c","o">>
InactiveEmail == <<"i","@","x",".","c","o">>
RemovedEmail == <<"g","@","x",".","c","o">>

Registered(email, username, role, is_active) ==
    [ NewUser([full_name |-> <<"A","l">>, email |-> email, username |-> username,
               password |-> Secret, role |-> role])
      EXCEPT !.is_active = is_active ]

InitPat ==
    /\ users = << Registered(AdminEmail, <<"r">>, Admin, TRUE),
                  Registered(DoctorEmail, <<"d">>, Doctor, TRUE),
                  Registered(NurseEmail, <<"n">>, Nurse, TRUE),
                  Registered(ReceptionistEmail, <<"c">>, Receptionist, TRUE),
                  Registered(StaffEmail, <<"s">>, Staff, TRUE),
                  Registered(InactiveEmail, <<"i">>, Admin, FALSE) >>
    /\ tokens = { AdminEmail, DoctorEmail, NurseEmail, ReceptionistEmail, StaffEmail,
                  InactiveEmail, RemovedEmail }
    /\ patients = <<>>
    /\ records = <<>>
    /\ audit = <<>>
    /\ notifications = <<>>
    /\ now = 0
    /\ procs = [p \in Procs |-> Idle]
    /\ resp = NoReply

Contact9 == <<"0","1","7","1","2","3","4","5","6">>
Contact9b == <<"0","1","7","1","2","3","4","5","7">>
Contact8 == <<" ","0","1","7","1","2","3","4","5"," ">>
NameJo == <<"J","o">>
NameJoPadded == <<" ","J","o">>
NameAl == <<" ","A","l"," ">>
NameJ == <<"J"," ">>

\* the bodies of POST /patients: each field present and valid, present and
\* invalid, or absent; the ages lie around both ends of the allowed range
CreateInputs ==
    [ name    : {NameJo, NameJ},
      age     : { AgeNone, AgeInt(0 - 1), AgeInt(0), AgeInt(1), AgeInt(150), AgeInt(151),
                  AgeStr(<<"0">>), AgeStr(<<"x">>) },
      contact : {Contact9, Contact8} ]

\* the bodies of PUT /patients/<id>: every choice of keys; each value
\* equals the stored one, equals it once trimmed, or differs from it
UpdateInputs ==
    { UpdateData(has, IF "name" \in has THEN name ELSE <<>>,
                      IF "age" \in has THEN age ELSE AgeNone,
                      IF "contact" \in has THEN contact ELSE <<>>) :
        has \in SUBSET {"name", "age", "contact"},
        name \in {NameJo, NameJoPadded, NameAl},
        age \in {AgeInt(1), AgeInt(150)},
        contact \in {Contact9, Contact9b} }

RecordInputs ==
    [ diagnosis : {<<"f","l","u">>, <<>>}, prescription : {None}, notes : {None} ]

ListInputs ==
    { ListQuery(page, per_page, search, include_deleted) :
        page \in {1, 2}, per_page \in {1, 10}, search \in {<<>>, <<"j">>},
        include_deleted \in {<<"f","a","l","s","e">>, <<"T","r","u","e">>} }

Callers == tokens
Ids == 1..(MaxPatients + 1)

\* the clock has run for a while when the first patient is created
InitCreate ==
    /\ users = << Registered(AdminEmail, <<"r">>, Admin, TRUE),
                  Registered(StaffEmail, <<"s">>, Staff, TRUE) >>
    /\ tokens = {AdminEmail, StaffEmail}
    /\ patients = <<>>
    /\ records = <<>>
    /\ audit = <<>>
    /\ notifications = <<>>
    /\ now = MaxClock - 6
    /\ procs = [p \in Procs |-> Idle]
    /\ resp = NoReply

\* the creation of patients, one request at a time
NextCreate ==
    \/ \E data \in CreateInputs : create_patient(1, AdminEmail, data)
    \/ \E storage_ok \in BOOLEAN : create_patient_commit(1, storage_ok)
    \/ create_patient_refresh(1)
    \/ \E fault \in AuditFaults : create_patient_audit(1, fault)
    \/ create_patient_respond(1)
    \/ \E id \in Ids : get_patient(1, StaffEmail, id)

SpecCreate == InitCreate /\ [][NextCreate]_vars

\* the requests of the life cycle of a patient: one valid body per route and
\* one partial update that changes nothing
LifecycleCreates == [name : {NameJo}, age : {AgeInt(1)}, contact : {Contact9}]

LifecycleUpdates ==
    { UpdateData({"name", "age"}, NameAl, AgeInt(150), Contact9b),
      UpdateData({}, NameAl, AgeInt(150), Contact9b) }

LifecycleRecords == [diagnosis : {<<"f","l","u">>}, prescription : {None}, notes : {None}]

LifecycleLists ==
    { ListQuery(1, per_page, <<>>, include_deleted) :
        per_page \in {1, 10},
        include_deleted \in {<<>>, <<"f","a","l","s","e">>, <<"T","r","u","e">>} }

\* the registry and the ledger, one request at a time: the administrator
\* acts and a member of staff reads
NextPat ==
    \/ \E data \in LifecycleCreates : create_patient(1, AdminEmail, data)
    \/ create_patient_commit(1, TRUE)
    \/ create_patient_refresh(1)
    \/ create_patient_audit(1, "none")
    \/ create_patient_respond(1)
    \/ \E id \in Ids, data \in LifecycleUpdates :
          update_patient(1, AdminEmail, id, data)
    \/ update_patient_select(1)
    \/ update_patient_commit(1, TRUE)
    \/ update_patient_refresh(1)
    \/ update_patient_audit(1, "none")
    \/ update_patient_respond(1)
    \/ \E id \in Ids : delete_patient(1, AdminEmail, id)
    \/ delete_patient_select(1)
    \/ delete_patient_commit(1, TRUE)
    \/ delete_patient_refresh(1)
    \/ delete_patient_audit(1, "none")
    \/ \E id \in Ids : restore_patient(1, AdminEmail, id)
    \/ restore_patient_select(1)
    \/ restore_patient_commit(1, TRUE)
    \/ restore_patient_refresh(1)
    \/ restore_patient_audit(1, "none")
    \/ \E id \in Ids, data \in LifecycleRecords :
          create_medical_record(1, AdminEmail, id, data)
    \/ create_medical_record_select(1)
    \/ create_medical_record_commit(1, TRUE)
    \/ create_medical_record_refresh(1)
    \/ create_medical_record_audit(1, "none")
    \/ create_medical_record_respond(1)
    \/ \E id \in Ids : get_patient(1, StaffEmail, id)
    \/ \E id \in Ids : get_medical_records(1, StaffEmail, id)
    \/ get_medical_records_select(1)
    \/ \E q \in LifecycleLists :
          \E order \in Orders(Matching(q)) : get_patients(1, StaffEmail, q, order)
    \/ get_patients_count(1)

SpecPat == InitPat /\ [][NextPat]_vars

\* the requests sent with every token: one body per route
GateUpdates == {UpdateData({"name", "age"}, NameAl, AgeInt(150), Contact9b)}

GateLists == {ListQuery(1, 10, <<>>, <<>>)}

\* the requests served before the first one followed here: the administrator
\* created a patient and soft-deleted it, the clock reading start + 1 to
\* start + 6 on the way
GateStart == MaxClock - 9

GateFirstPatient == NewPatient(CHOOSE data \in LifecycleCreates : TRUE, AdminEmail, GateStart + 1)

InitGate ==
    /\ users = << Registered(AdminEmail, <<"r">>, Admin, TRUE),
                  Registered(DoctorEmail, <<"d">>, Doctor, TRUE),
                  Registered(NurseEmail, <<"n">>, Nurse, TRUE),
                  Registered(ReceptionistEmail, <<"c">>, Receptionist, TRUE),
                  Registered(StaffEmail, <<"s">>, Staff, TRUE),
                  Registered(InactiveEmail, <<"i">>, Admin, FALSE) >>
    /\ tokens = { AdminEmail, DoctorEmail, NurseEmail, ReceptionistEmail, StaffEmail,
                  InactiveEmail, RemovedEmail }
    /\ patients = << Flush(GateFirstPatient, GateFirstPatient,
                           [ GateFirstPatient EXCEPT !.is_deleted = TRUE,
                                                     !.deleted_at = Some(GateStart + 4),
                                                     !.deleted_by = Some(AdminEmail) ],
                           GateStart + 5) >>
    /\ records = <<>>
    /\ audit = << AuditEntry("patient", 1, "CREATE", AdminEmail, GateStart + 3,
                             [ name |-> GateFirstPatient.name, age |-> GateFirstPatient.age,
                               contact |-> GateFirstPatient.contact ]),
                  AuditEntry("patient", 1, "DELETE", AdminEmail, GateStart + 6,
                             [deleted_at |-> GateStart + 4]) >>
    /\ notifications = << [ event_type |-> "patient_created", patient_id |-> 1,
                            patient_name |-> GateFirstPatient.name,
                            patient_contact |-> GateFirstPatient.contact,
                            created_by |-> AdminEmail ] >>
    /\ now = GateStart + 6
    /\ procs = [p \in Procs |-> Idle]
    /\ resp = NoReply

\* the user whose active flag the administration outside the service sets
\* while requests are served: the administrator
GateToggled == {1}

\* every route called with every token, one request at a time, and the
\* active flag set between any two steps
NextGate ==
    \/ \E identity \in Callers, data \in LifecycleCreates : create_patient(1, identity, data)
    \/ create_patient_commit(1, TRUE)
    \/ create_patient_refresh(1)
    \/ create_patient_audit(1, "none")
    \/ create_patient_respond(1)
    \/ \E identity \in Callers, id \in Ids, data \in GateUpdates :
          update_patient(1, identity, id, data)
    \/ update_patient_select(1)
    \/ update_patient_commit(1, TRUE)
    \/ update_patient_refresh(1)
    \/ update_patient_audit(1, "none")
    \/ update_patient_respond(1)
    \/ \E identity \in Callers, id \in Ids : delete_patient(1, identity, id)
    \/ delete_patient_select(1)
    \/ delete_patient_commit(1, TRUE)
    \/ delete_patient_refresh(1)
    \/ delete_patient_audit(1, "none")
    \/ \E identity \in Callers, id \in Ids : restore_patient(1, identity, id)
    \/ restore_patient_select(1)
    \/ restore_patient_commit(1, TRUE)
    \/ restore_patient_refresh(1)
    \/ restore_patient_audit(1, "none")
    \/ \E identity \in Callers, id \in Ids, data \in LifecycleRecords :
          create_medical_record(1, identity, id, data)
    \/ create_medical_record_select(1)
    \/ create_medical_record_commit(1, TRUE)
    \/ create_medical_record_refresh(1)
    \/ create_medical_record_audit(1, "none")
    \/ create_medical_record_respond(1)
    \/ \E identity \in Callers, id \in Ids : get_patient(1, identity, id)
    \/ \E identity \in Callers, id \in Ids : get_medical_records(1, identity, id)
    \/ get_medical_records_select(1)
    \/ \E identity \in Callers, q \in GateLists :
          \E order \in Orders(Matching(q)) : get_patients(1, identity, q, order)
    \/ get_patients_count(1)
    \/ \E i \in GateToggled, flag \in BOOLEAN : set_is_active(i, flag)

SpecGate == InitGate /\ [][NextGate]_vars

\* updates of one patient, one request at a time; the clock has run for a
\* while when the patient is created
InitUpdate ==
    /\ users = << Registered(AdminEmail, <<"r">>, Admin, TRUE),
                  Registered(DoctorEmail, <<"d">>, Doctor, TRUE),
                  Registered(NurseEmail, <<"n">>, Nurse, TRUE),
                  Registered(ReceptionistEmail, <<"c">>, Receptionist, TRUE),
                  Registered(StaffEmail, <<"s">>, Staff, TRUE),
                  Registered(InactiveEmail, <<"i">>, Admin, FALSE) >>
    /\ tokens = { AdminEmail, DoctorEmail, NurseEmail, ReceptionistEmail, StaffEmail,
                  InactiveEmail, RemovedEmail }
    /\ patients = <<>>
    /\ records = <<>>
    /\ audit = <<>>
    /\ notifications = <<>>
    /\ now = MaxClock - 5
    /\ procs = [p \in Procs |-> Idle]
    /\ resp = NoReply

NextUpdate ==
    \/ \E data \in LifecycleCreates : create_patient(1, AdminEmail, data)
    \/ create_patient_commit(1, TRUE)
    \/ create_patient_refresh(1)
    \/ create_patient_audit(1, "none")
    \/ create_patient_respond(1)
    \/ \E id \in 1..MaxPatients, data \in UpdateInputs :
          update_patient(1, AdminEmail, id, data)
    \/ update_patient_select(1)
    \/ \E storage_ok \in BOOLEAN : update_patient_commit(1, storage_ok)
    \/ update_patient_refresh(1)
    \/ \E fault \in AuditFaults : update_patient_audit(1, fault)
    \/ update_patient_respond(1)
    \/ \E id \in 1..MaxPatients : get_patient(1, StaffEmail, id)

SpecUpdate == InitUpdate /\ [][NextUpdate]_vars

\* the one update the concurrent requests send
RaceUpdates == {UpdateData({"name", "age"}, NameAl, AgeInt(150), Contact9b)}

RaceStart == MaxClock - 4

\* the patient the administrator created before the concurrent requests
\* arrive
RacePatient ==
    NewPatient(CHOOSE data \in LifecycleCreates : TRUE, AdminEmail, RaceStart - 2)

\* the registry and the ledger under concurrent requests of the
\* administrator, who has created a patient before the first one arrives
InitRace ==
    /\ users = << Registered(AdminEmail, <<"r">>, Admin, TRUE),
                  Registered(DoctorEmail, <<"d">>, Doctor, TRUE),
                  Registered(NurseEmail, <<"n">>, Nurse, TRUE),
                  Registered(ReceptionistEmail, <<"c">>, Receptionist, TRUE),
                  Registered(StaffEmail, <<"s">>, Staff, TRUE),
                  Registered(InactiveEmail, <<"i">>, Admin, FALSE) >>
    /\ tokens = { AdminEmail, DoctorEmail, NurseEmail, ReceptionistEmail, StaffEmail,
                  InactiveEmail, RemovedEmail }
    /\ patients = <<RacePatient>>
    /\ records = <<>>
    /\ audit = << AuditEntry("patient", 1, "CREATE", AdminEmail, RaceStart,
                             [ name |-> RacePatient.name, age |-> RacePatient.age,
                               contact |-> RacePatient.contact ]) >>
    /\ notifications = << PatientCreatedEvent(1, RacePatient, AdminEmail) >>
    /\ now = RaceStart
    /\ procs = [p \in Procs |-> Idle]
    /\ resp = NoReply

\* the concurrent requests name the one patient; each route turns a request
\* down once the patient is in the wrong state for it
RaceIds == {1}

NextRace ==
    \/ \E p \in Procs, id \in RaceIds, data \in RaceUpdates : update_patient(p, AdminEmail, id, data)
    \/ \E p \in Procs : update_patient_select(p)
    \/ \E p \in Procs : update_patient_commit(p, TRUE)
    \/ \E p \in Procs : update_patient_refresh(p)
    \/ \E p \in Procs : update_patient_audit(p, "none")
    \/ \E p \in Procs : update_patient_respond(p)
    \/ \E p \in Procs, id \in RaceIds : delete_patient(p, AdminEmail, id)
    \/ \E p \in Procs : delete_patient_select(p)
    \/ \E p \in Procs : delete_patient_commit(p, TRUE)
    \/ \E p \in Procs : delete_patient_refresh(p)
    \/ \E p \in Procs : delete_patient_audit(p, "none")
    \/ \E p \in Procs, id \in RaceIds : restore_patient(p, AdminEmail, id)
    \/ \E p \in Procs : restore_patient_select(p)
    \/ \E p \in Procs : restore_patient_commit(p, TRUE)
    \/ \E p \in Procs : restore_patient_refresh(p)
    \/ \E p \in Procs : restore_patient_audit(p, "none")
    \/ \E p \in Procs, id \in RaceIds, data \in RecordInputs :
          create_medical_record(p, AdminEmail, id, data)
    \/ \E p \in Procs : create_medical_record_select(p)
    \/ \E p \in Procs : create_medical_record_commit(p, TRUE)
    \/ \E p \in Procs : create_medical_record_refresh(p)
    \/ \E p \in Procs : create_medical_record_audit(p, "none")
    \/ \E p \in Procs : create_medical_record_respond(p)

SpecRace == InitRace /\ [][NextRace]_vars

\* the requests sent while the store and the audit write may fail: a valid
\* and an invalid create, an update that changes the age and one that does
\* not, a record with and without a diagnosis, a new and a malformed user
FaultCreates == [name : {NameJo}, age : {AgeInt(1), AgeInt(151)}, contact : {Contact9}]

FaultUpdates ==
    { UpdateData({"age"}, <<>>, AgeInt(150), <<>>), UpdateData({"age"}, <<>>, AgeInt(1), <<>>) }

FaultRegisters ==
    [ full_name : {<<"A","l">>},
      email     : {EmailB},
      username  : {<<"b">>},
      password  : {Secret},
      role      : {<<"D","o","c","t","o","r">>, <<"b","o","s","s">>} ]

FaultCallers == {AdminEmail, StaffEmail}

\* an administrator and a staff member are registered and logged in; the
\* administrator has created a patient and soft-deleted it, as in InitGate
InitFault ==
    /\ users = << Registered(AdminEmail, <<"r">>, Admin, TRUE),
                  Registered(StaffEmail, <<"s">>, Staff, TRUE) >>
    /\ tokens = FaultCallers
    /\ patients = << Flush(GateFirstPatient, GateFirstPatient,
                           DeletedPatient(GateFirstPatient, AdminEmail, GateStart + 4),
                           GateStart + 5) >>
    /\ records = <<>>
    /\ audit = << AuditEntry("patient", 1, "CREATE", AdminEmail, GateStart + 3,
                             [ name |-> GateFirstPatient.name, age |-> GateFirstPatient.age,
                               contact |-> GateFirstPatient.contact ]),
                  AuditEntry("patient", 1, "DELETE", AdminEmail, GateStart + 6,
                             [deleted_at |-> GateStart + 4]) >>
    /\ notifications = << [ event_type |-> "patient_created", patient_id |-> 1,
                            patient_name |-> GateFirstPatient.name,
                            patient_contact |-> GateFirstPatient.contact,
                            created_by |-> AdminEmail ] >>
    /\ now = GateStart + 6
    /\ procs = [p \in Procs |-> Idle]
    /\ resp = NoReply

\* every mutating operation, one request at a time; each commit may fail and
\* each audit write may fail in its flush or in its commit
NextFault ==
    \/ \E data \in FaultRegisters : register(1, data)
    \/ register_email(1)
    \/ \E storage_ok \in BOOLEAN : register_commit(1, storage_ok)
    \/ register_respond(1)
    \/ \E c \in FaultCallers, data \in FaultCreates : create_patient(1, c, data)
    \/ \E storage_ok \in BOOLEAN : create_patient_commit(1, storage_ok)
    \/ create_patient_refresh(1)
    \/ \E fault \in AuditFaults : create_patient_audit(1, fault)
    \/ create_patient_respond(1)
    \/ \E c \in FaultCallers, id \in Ids, data \in FaultUpdates : update_patient(1, c, id, data)
    \/ update_patient_select(1)
    \/ \E storage_ok \in BOOLEAN : update_patient_commit(1, storage_ok)
    \/ update_patient_refresh(1)
    \/ \E fault \in AuditFaults : update_patient_audit(1, fault)
    \/ update_patient_respond(1)
    \/ \E c \in FaultCallers, id \in Ids : delete_patient(1, c, id)
    \/ delete_patient_select(1)
    \/ \E storage_ok \in BOOLEAN : delete_patient_commit(1, storage_ok)
    \/ delete_patient_refresh(1)
    \/ \E fault \in AuditFaults : delete_patient_audit(1, fault)
    \/ \E c \in FaultCallers, id \in Ids : restore_patient(1, c, id)
    \/ restore_patient_select(1)
    \/ \E storage_ok \in BOOLEAN : restore_patient_commit(1, storage_ok)
    \/ restore_patient_refresh(1)
    \/ \E fault \in AuditFaults : restore_patient_audit(1, fault)
    \/ \E c \in FaultCallers, id \in Ids, data \in RecordInputs :
          create_medical_record(1, c, id, data)
    \/ create_medical_record_select(1)
    \/ \E storage_ok \in BOOLEAN : create_medical_record_commit(1, storage_ok)
    \/ create_medical_record_refresh(1)
    \/ \E fault \in AuditFaults : create_medical_record_audit(1, fault)
    \/ create_medical_record_respond(1)

SpecFault == InitFault /\ [][NextFault]_vars

\* two updates of the same patient, each changing one field and sending the
\* other as stored: the administrator renames the patient, the doctor
\* changes the age
SerialFirst == UpdateData({"name", "age"}, NameAl, AgeInt(1), <<>>)
SerialSecond == UpdateData({"name", "age"}, NameJo, AgeInt(150), <<>>)

SerialStart == MaxClock - 3

\* the patient the administrator created before the two updates arrive
SerialPatient ==
    NewPatient(CHOOSE data \in LifecycleCreates : TRUE, AdminEmail, SerialStart - 2)

InitSerial ==
    /\ users = << Registered(AdminEmail, <<"r">>, Admin, TRUE),
                  Registered(DoctorEmail, <<"d">>, Doctor, TRUE),
                  Registered(StaffEmail, <<"s">>, Staff, TRUE) >>
    /\ tokens = {AdminEmail, DoctorEmail, StaffEmail}
    /\ patients = <<SerialPatient>>
    /\ records = <<>>
    /\ audit = << AuditEntry("patient", 1, "CREATE", AdminEmail, SerialStart,
                             [ name |-> SerialPatient.name, age |-> SerialPatient.age,
                               contact |-> SerialPatient.contact ]) >>
    /\ notifications = << [ event_type |-> "patient_created", patient_id |-> 1,
                            patient_name |-> SerialPatient.name,
                            patient_contact |-> SerialPatient.contact,
                            created_by |-> AdminEmail ] >>
    /\ now = SerialStart
    /\ procs = [p \in Procs |-> Idle]
    /\ resp = NoReply

\* the two updates sent by concurrent requests, and reads by a staff member
NextSerial ==
    \/ \E p \in Procs : update_patient(p, AdminEmail, 1, SerialFirst)
    \/ \E p \in Procs : update_patient(p, DoctorEmail, 1, SerialSecond)
    \/ \E p \in Procs : update_patient_select(p)
    \/ \E p \in Procs : update_patient_commit(p, TRUE)
    \/ \E p \in Procs : update_patient_refresh(p)
    \/ \E p \in Procs : update_patient_audit(p, "none")
    \/ \E p \in Procs : update_patient_respond(p)
    \/ \E p \in Procs : get_patient(p, StaffEmail, 1)

SpecSerial == InitSerial /\ [][NextSerial]_vars

\* the registry sizes around the largest page, and the row, the CREATE entry
\* and the notification of the i-th patient the administrator created
ListSizes == {0, 1, 100, 101}

ListedData(i) ==
    [name |-> IF i % 2 = 1 THEN NameJo ELSE NameAl, age |-> AgeInt(1), contact |-> Contact9]

ListedPatient(i) == NewPatient(ListedData(i), AdminEmail, 3 * i - 2)

\* the pages asked for: before the first, the first, a later one and one past
\* the end; page sizes below one, small, at and above the clamp
PageInputs ==
    { ListQuery(page, per_page, search, <<"f","a","l","s","e">>) :
        page \in {0, 1, 2, 3}, per_page \in {0, 1, 50, 100, 101, 200},
        search \in {<<>>, <<"j">>} }

\* a set of patient ids in ascending order, the order of the primary key
ById(S) == SelectSeq([i \in 1..Len(patients) |-> i], LAMBDA id : id \in S)

\* the state after the administrator created n patients
Listed(n) ==
    /\ users = << Registered(AdminEmail, <<"r">>, Admin, TRUE),
                  Registered(StaffEmail, <<"s">>, Staff, TRUE) >>
    /\ tokens = {AdminEmail, StaffEmail}
    /\ patients = [i \in 1..n |-> ListedPatient(i)]
    /\ records = <<>>
    /\ audit = [i \in 1..n |->
                  AuditEntry("patient", i, "CREATE", AdminEmail, 3 * i,
                             [ name |-> ListedPatient(i).name,
                               age |-> ListedPatient(i).age,
                               contact |-> ListedPatient(i).contact ])]
    /\ notifications = [i \in 1..n |->
                  [ event_type |-> "patient_created", patient_id |-> i,
                    patient_name |-> ListedPatient(i).name,
                    patient_contact |-> ListedPatient(i).contact,
                    created_by |-> AdminEmail ]]
    /\ now = 3 * n
    /\ procs = [p \in Procs |-> Idle]
    /\ resp = NoReply

InitList == \E n \in ListSizes : Listed(n)

\* lists of a registry of up to a little more than a hundred patients, the
\* store returning the rows by id
NextList ==
    \/ \E q \in PageInputs :
          \E order \in {ById(Matching(q))} : get_patients(1, StaffEmail, q, order)
    \/ get_patients_count(1)

SpecList == InitList /\ [][NextList]_vars

\* searches: none, letters in either case, a string no name contains, and
\* the characters LIKE gives a meaning to
SearchInputs ==
    { ListQuery(page, per_page, search, <<"f","a","l","s","e">>) :
        page \in {1, 2}, per_page \in {1, 10},
        search \in { <<>>, <<"j">>, <<"O">>, <<"j","O">>, <<"l">>, <<"x">>, <<"o","j">>,
                     <<"_">>, <<"%">>, <<"j","%">>, <<"\\">> } }

SearchSizes == 0..3

InitSearch == \E n \in SearchSizes : Listed(n)

\* searches in a small registry
NextSearch ==
    \/ \E q \in SearchInputs :
          \E order \in Orders(Matching(q)) : get_patients(1, StaffEmail, q, order)
    \/ get_patients_count(1)

SpecSearch == InitSearch /\ [][NextSearch]_vars

\* updates that fail a check after a valid new name, or on the name itself,
\* and two that pass
RejectedUpdates ==
    { UpdateData({"name", "age"}, NameAl, AgeInt(151), <<>>),
      UpdateData({"name", "age"}, NameAl, AgeStr(<<"x">>), <<>>),
      UpdateData({"name", "age"}, NameAl, AgeNone, <<>>),
      UpdateData({"name", "age", "contact"}, NameAl, AgeInt(150), Contact8),
      UpdateData({"name", "age"}, NameJ, AgeInt(150), <<>>),
      UpdateData({"age"}, <<>>, AgeInt(0 - 1), <<>>),
      UpdateData({"name", "age"}, NameAl, AgeInt(150), <<>>),
      UpdateData({"contact"}, <<>>, AgeNone, Contact9b),
      UpdateData({"name"}, Null, AgeNone, <<>>),
      UpdateData({"name", "contact"}, NameAl, AgeNone, Null) }

RejectStart == MaxClock - 7

InitReject ==
    /\ users = << Registered(AdminEmail, <<"r">>, Admin, TRUE),
                  Registered(StaffEmail, <<"s">>, Staff, TRUE) >>
    /\ tokens = {AdminEmail, StaffEmail}
    /\ patients = <<>>
    /\ records = <<>>
    /\ audit = <<>>
    /\ notifications = <<>>
    /\ now = RejectStart
    /\ procs = [p \in Procs |-> Idle]
    /\ resp = NoReply

\* valid and invalid updates of the patients of one administrator, one
\* request at a time, and the reads of a staff member
NextReject ==
    \/ \E data \in LifecycleCreates : create_patient(1, AdminEmail, data)
    \/ create_patient_commit(1, TRUE)
    \/ create_patient_refresh(1)
    \/ create_patient_audit(1, "none")
    \/ create_patient_respond(1)
    \/ \E id \in 1..MaxPatients, data \in RejectedUpdates :
          update_patient(1, AdminEmail, id, data)
    \/ update_patient_select(1)
    \/ update_patient_commit(1, TRUE)
    \/ update_patient_refresh(1)
    \/ update_patient_audit(1, "none")
    \/ update_patient_respond(1)
    \/ \E id \in 1..MaxPatients : get_patient(1, StaffEmail, id)

SpecReject == InitReject /\ [][NextReject]_vars

\* the concurrent requests of SpecRace and the reads of the ledger by a
\* staff member
NextLedger ==
    \/ NextRace
    \/ \E p \in Procs, id \in RaceIds : get_medical_records(p, StaffEmail, id)
    \/ \E p \in Procs : get_medical_records_select(p)

SpecLedger == InitRace /\ [][NextLedger]_vars

\* ------------------------------------------------------------------ claims
\* a response was sent in this step. A step that answers at once and sends
\* the response resp already holds changes no variable; the same step from
\* the same tables is taken where resp first became that response.
Responded == resp' # NoReply /\ (resp' # resp \/ procs' # procs)

\* some stored user has this e-mail, letter case ignored
EmailTaken(email) == \E i \in 1..Len(users) : Lower(users[i].email) = Lower(email)

\* a register call is turned down in this step
RegisterRefused == Responded /\ resp'.op = "register" /\ resp'.kind # "Created"

\* the commit of register request p goes through in this step: the user is
\* stored, and the request goes on to load it for its answer, Created
RegisterCommitted(p) ==
    procs[p].pc = "register_commit" /\ procs'[p] # procs[p] /\ procs'[p] # Idle

\* the body is valid, its username free and its e-mail, letter case ignored,
\* the e-mail of a stored user
EmailAlreadyUsed(data) ==
    /\ RegisterFieldError(data) = "ok"
    /\ UserByUsername(data.username) = {}
    /\ EmailTaken(data.email)

\* C2: a register call whose e-mail equals, letter case ignored, the e-mail
\* of an existing user (the other fields valid, the username free) is
\* answered DuplicateEmail and leaves the users unchanged: it is turned down
\* with that answer, and its commit never goes through.
C2_DuplicateEmailRejected ==
    [][ /\ (RegisterRefused /\ EmailAlreadyUsed(resp'.req))
           => (resp'.kind = "DuplicateEmail" /\ users' = users)
        /\ \A p \in Procs : RegisterCommitted(p) => ~EmailAlreadyUsed(procs[p].req) ]_vars

\* C3: of two register calls with the same username and distinct valid
\* e-mails, interleaved in any way, the one that does not succeed is answered
\* DuplicateUsername: a valid call turned down while another user holds its
\* username (and nobody its e-mail) gets DuplicateUsername and adds no user,
\* and the commit of such a call never goes through.
C3_RaceLoserGetsDuplicateUsername ==
    [][ /\ ( /\ RegisterRefused
             /\ RegisterFieldError(resp'.req) = "ok"
             /\ UserByUsername(resp'.req.username) # {}
             /\ ~EmailTaken(resp'.req.email) )
           => (resp'.kind = "DuplicateUsername" /\ users' = users)
        /\ \A p \in Procs :
              RegisterCommitted(p) => UserByUsername(procs[p].req.username) = {} ]_vars

\* C4: in every reachable state no two users share an e-mail, no two users
\* share a username, and every stored role is one of the five allowed roles.
C4_UsersUniqueAndRolesAllowed ==
    /\ \A i, j \in 1..Len(users) :
          i # j => /\ users[i].email # users[j].email
                   /\ users[i].username # users[j].username
    /\ \A i \in 1..Len(users) : users[i].role \in ALLOWED_ROLES

\* C4 witness: two users are stored and a concurrent insert has just been
\* turned down by a unique constraint.
C4_Witness ==
    /\ Len(users) = 2
    /\ resp.op = "register"
    /\ resp.kind = "PersistenceFailure"
    /\ resp.cause = "unique"

\* the user a login request addresses
LoginSubject(data) == UserByEmail(Lower(data.email))

\* C5: login checks the credentials before the active flag. For an existing
\* user a wrong password gives InvalidCredentials, active or not; the right
\* password on an inactive account gives AccountInactive; a token is issued
\* only when the password matches and the account is active. A password is
\* right when check_password accepts it against the stored digest.
C5_CredentialsBeforeActive ==
    [][ ( /\ Responded
          /\ resp'.op = "login"
          /\ resp'.req.password # <<>>
          /\ is_valid_email(resp'.req.email)
          /\ LoginSubject(resp'.req) # {} )
        => LET u == users[CHOOSE i \in LoginSubject(resp'.req) : TRUE]
               right == check_password(u.password, resp'.req.password)
           IN  /\ ~right => resp'.kind = "InvalidCredentials"
               /\ (right /\ ~u.is_active) => resp'.kind = "AccountInactive"
               /\ (right /\ u.is_active) =>
                     (resp'.kind = "Success" /\ u.email \in tokens')
               /\ tokens' # tokens => (right /\ u.is_active) ]_vars

\* C5 witness: a wrong password on an inactive account was answered
\* InvalidCredentials.
C5_Witness ==
    /\ resp.op = "login"
    /\ resp.kind = "InvalidCredentials"
    /\ \E i \in LoginSubject(resp.req) :
          ~users[i].is_active /\ users[i].password # hash_password(resp.req.password)

\* ------------------------------------------------- claims on the registry
\* C1: for every integer age a sent to create patient with a valid name and
\* contact (and a store that works), the create succeeds exactly when
\* 0 <= a <= 150; a = -1 and a = 151 fail with the same kind, InvalidAge; a
\* failed create adds no patient.
C1_CreateSucceedsIffAgeInRange ==
    [][ ( /\ Responded
          /\ resp'.op = "create_patient"
          /\ resp'.cause = "none"
          /\ Authorize(resp'.req.identity, {Admin, Doctor, Nurse}) = "ok"
          /\ resp'.req.data.age.t = "int"
          /\ Len(Strip(resp'.req.data.name)) >= 2
          /\ Len(Strip(resp'.req.data.contact)) >= 9 )
        => LET a == resp'.req.data.age.i IN
           /\ (resp'.kind = "Created") <=> (0 <= a /\ a <= 150)
           /\ a \in {0 - 1, 151} => resp'.kind = "InvalidAge"
           /\ resp'.kind # "Created" => patients' = patients ]_vars

\* the role of the user an identity resolves to
RoleOf(identity) == users[CHOOSE i \in UserByEmail(identity) : TRUE].role

\* the identity resolves to an active user
ActiveUser(identity) ==
    UserByEmail(identity) # {} /\ users[CHOOSE i \in UserByEmail(identity) : TRUE].is_active

\* the role matrix of the gated operations
RoleMatrix ==
    [ create_patient        |-> {Admin, Doctor, Nurse},
      update_patient        |-> {Admin, Doctor, Nurse},
      delete_patient        |-> {Admin},
      restore_patient       |-> {Admin},
      create_medical_record |-> {Admin, Doctor} ]

\* the operation of a request in flight
OpOf(pc) ==
    CASE pc \in { "create_patient_commit", "create_patient_refresh", "create_patient_audit",
                  "create_patient_respond" } -> "create_patient"
      [] pc \in { "update_patient_select", "update_patient_commit", "update_patient_refresh",
                  "update_patient_audit", "update_patient_respond" } -> "update_patient"
      [] pc \in { "delete_patient_select", "delete_patient_commit", "delete_patient_refresh",
                  "delete_patient_audit" } -> "delete_patient"
      [] pc \in { "restore_patient_select", "restore_patient_commit",
                  "restore_patient_refresh", "restore_patient_audit" } -> "restore_patient"
      [] pc \in { "create_medical_record_select", "create_medical_record_commit",
                  "create_medical_record_refresh", "create_medical_record_audit",
                  "create_medical_record_respond" } -> "create_medical_record"
      [] OTHER -> "none"

\* C6: a gated operation called by an active user whose role, letter case
\* ignored, is outside the allowed set is answered Forbidden and changes no
\* patient, medical record or audit entry; and every step that changes one of
\* the three belongs to a request whose caller has a role allowed for it.
C6_OnlyAllowedRolesChangeState ==
    [][ /\ ( /\ Responded
             /\ resp'.op \in DOMAIN RoleMatrix
             /\ ActiveUser(resp'.req.identity)
             /\ Lower(RoleOf(resp'.req.identity)) \notin RoleMatrix[resp'.op] )
           => /\ resp'.kind = "Forbidden"
              /\ UNCHANGED <<patients, records, audit>>
        /\ <<patients, records, audit>>' # <<patients, records, audit>>
           => \E p \in Procs :
                 /\ procs'[p] # procs[p]
                 /\ OpOf(procs[p].pc) \in DOMAIN RoleMatrix
                 /\ UserByEmail(procs[p].req.identity) # {}
                 /\ Lower(RoleOf(procs[p].req.identity)) \in RoleMatrix[OpOf(procs[p].pc)] ]_vars

\* C6 witness: a nurse asked to soft-delete a patient that exists and is not
\* deleted, and was answered Forbidden.
C6_Witness ==
    /\ resp.op = "delete_patient"
    /\ resp.kind = "Forbidden"
    /\ resp.req.identity = NurseEmail
    /\ resp.req.id \in 1..Len(patients)
    /\ ~patients[resp.req.id].is_deleted

\* the operations modelled of the role matrix
MatrixOps ==
    { "create_patient", "update_patient", "delete_patient", "restore_patient",
      "create_medical_record", "get_patient", "get_patients", "get_medical_records" }

\* C7: every operation of the role matrix, those open to any authenticated
\* identity included, answers UserNotFound when the identity resolves to no
\* user and AccountInactive when it resolves to an inactive user.
C7_RemovedAndInactiveRefused ==
    [][ ( Responded /\ resp'.op \in MatrixOps )
        => /\ UserByEmail(resp'.req.identity) = {} => resp'.kind = "UserNotFound"
           /\ ( UserByEmail(resp'.req.identity) # {} /\ ~ActiveUser(resp'.req.identity) )
                 => resp'.kind = "AccountInactive" ]_vars

\* the lookup of a request for operation op on patient id runs in this step:
\* the query of get_patient, or the query for the patient of a gated
\* operation, which follows the query of its decorator
Arrives(op, first, id) ==
    \E p \in Procs :
       IF first = "none"
       THEN /\ procs[p].pc = "idle"
            /\ procs' = procs
            /\ Responded
            /\ resp'.op = op
            /\ resp'.req.id = id
       ELSE /\ procs[p].pc = first
            /\ procs[p].req.id = id
            /\ procs'[p] # procs[p]

\* the request looked up in this step is answered NotFound and changes neither
\* the patients nor the audit trail
TurnedDownNotFound ==
    /\ Responded
    /\ resp'.kind = "NotFound"
    /\ \A p \in Procs : procs'[p] = procs[p] \/ procs'[p] = Idle
    /\ UNCHANGED <<patients, audit>>

\* C8: restore on an id that does not exist or is not soft-deleted is
\* answered NotFound, leaves every patient as it is and appends no audit
\* entry.
C8_RestoreOfNonDeletedNotFound ==
    [][ \A id \in Ids :
          ( /\ Arrives("restore_patient", "restore_patient_select", id)
            /\ ~(id \in 1..Len(patients) /\ patients[id].is_deleted) )
          => TurnedDownNotFound ]_vars

\* C8 witness: a restore of a patient that exists and is not deleted was
\* answered NotFound while another patient is soft-deleted.
C8_Witness ==
    /\ resp.op = "restore_patient"
    /\ resp.kind = "NotFound"
    /\ resp.req.id \in 1..Len(patients)
    /\ ~patients[resp.req.id].is_deleted
    /\ \E other \in 1..Len(patients) : patients[other].is_deleted

\* the query asks for the soft-deleted patients as well
IncludesDeleted(q) == Lower(q.include_deleted) = <<"t","r","u","e">>

\* the items of a list response that describe patient id
ItemsOf(body, id) == {i \in 1..Len(body.patients) : body.patients[i].id = id}

\* C9: while a patient is soft-deleted, a list without include_deleted=true
\* does not return it; a list with include_deleted=true returns it only with
\* is_deleted = true, and does return it when it matches the search and the
\* page holds every match.
C9_ListHidesSoftDeleted ==
    [][ ( Responded /\ resp'.op = "get_patients" )
        => \A id \in 1..Len(patients) :
              patients[id].is_deleted =>
                 LET q == resp'.req.q
                     items == ItemsOf(resp'.body, id)
                 IN  /\ ~IncludesDeleted(q) => items = {}
                     /\ IncludesDeleted(q) =>
                           /\ \A i \in items : resp'.body.patients[i].is_deleted
                           /\ ( /\ q.search = <<>>
                                /\ q.page = 1
                                /\ Len(patients) <= q.per_page
                                /\ q.per_page <= 100 )
                              => items # {} ]_vars

\* C9 witness: with one patient soft-deleted and another one not, a list with
\* include_deleted=true returned both, the deleted one marked is_deleted.
C9_Witness ==
    /\ resp.op = "get_patients"
    /\ IncludesDeleted(resp.req.q)
    /\ Len(resp.body.patients) = 2
    /\ \E i, j \in 1..2 :
          /\ resp.body.patients[i].is_deleted
          /\ patients[resp.body.patients[i].id].is_deleted
          /\ ~resp.body.patients[j].is_deleted

\* C10: get, update and soft-delete on an id that is soft-deleted or was never
\* created are answered NotFound, change no patient and append no audit entry.
C10_DeletedOrMissingNotFound ==
    [][ \A id \in Ids :
          ( /\ \/ Arrives("get_patient", "none", id)
               \/ Arrives("update_patient", "update_patient_select", id)
               \/ Arrives("delete_patient", "delete_patient_select", id)
            /\ ~(id \in 1..Len(patients) /\ ~patients[id].is_deleted) )
          => TurnedDownNotFound ]_vars

\* C10 witness: an update of a soft-deleted patient was answered NotFound.
C10_Witness ==
    /\ resp.op = "update_patient"
    /\ resp.kind = "NotFound"
    /\ resp.req.id \in 1..Len(patients)
    /\ patients[resp.req.id].is_deleted

\* ------------------------------------------- claims on deletion and audit
\* C11: in every reachable state every patient has deleted_at set exactly
\* when is_deleted is true, and deleted_by set exactly when is_deleted is
\* true.
C11_DeletionFieldsAgree ==
    \A id \in 1..Len(patients) :
       /\ (patients[id].deleted_at # None) <=> patients[id].is_deleted
       /\ (patients[id].deleted_by # None) <=> patients[id].is_deleted

\* C11 witness: a patient was soft-deleted and restored, and has both
\* deletion fields cleared again.
C11_Witness ==
    \E id \in 1..Len(patients) :
       /\ ~patients[id].is_deleted
       /\ patients[id].deleted_at = None
       /\ patients[id].deleted_by = None
       /\ \E d, r \in 1..Len(audit) :
             /\ audit[d].action = "DELETE" /\ audit[d].entity_id = id
             /\ audit[r].action = "RESTORE" /\ audit[r].entity_id = id

\* the positions in an audit trail of the entries on one entity and action
EntriesOn(trail, entity_type, entity_id, action) ==
    { e \in 1..Len(trail) :
        /\ trail[e].entity_type = entity_type
        /\ trail[e].entity_id = entity_id
        /\ trail[e].action = action }

\* the response of this step is sent by the step that calls log_audit: the
\* audit write failed, and the request ends without loading the row again
AnsweredFromAudit(step) ==
    \E p \in Procs : procs[p].pc = step /\ procs'[p] = Idle /\ Responded

\* a create patient was answered Created in this step
CreatedPatient == Responded /\ resp'.op = "create_patient" /\ resp'.kind = "Created"

\* the CREATE entries on the patient just created name the creating user
\* and carry the stored name, age and contact
CreateEntriesRight ==
    LET id == resp'.body.id IN
    \A e \in EntriesOn(audit', "patient", id, "CREATE") :
       /\ audit'[e].user_email = resp'.req.identity
       /\ audit'[e].changes.name = patients'[id].name
       /\ audit'[e].changes.age = patients'[id].age
       /\ audit'[e].changes.contact = patients'[id].contact

\* C12 as stated: after every successful create patient there is exactly one
\* audit entry with entity_type patient, action CREATE and the id of the new
\* patient; its actor is the creating user and its changes contain the stored
\* name, age and contact.
C12_ExactlyOneCreateEntry ==
    [][ CreatedPatient
        => /\ Cardinality(EntriesOn(audit', "patient", resp'.body.id, "CREATE")) = 1
           /\ CreateEntriesRight ]_vars

\* C12 amended: after every successful create patient there is at most one
\* such entry, and exactly one when the audit write did not fail; the entry
\* names the creating user and carries the stored name, age and contact.
C12_OneCreateEntryUnlessAuditFails ==
    [][ CreatedPatient
        => /\ Cardinality(EntriesOn(audit', "patient", resp'.body.id, "CREATE"))
                 = (IF AnsweredFromAudit("create_patient_audit") THEN 0 ELSE 1)
           /\ CreateEntriesRight ]_vars

\* C12 witness: the second patient was created and its CREATE entry is the
\* last of the audit trail.
C12_Witness ==
    /\ resp.op = "create_patient"
    /\ resp.kind = "Created"
    /\ resp.body.id = 2
    /\ audit # <<>>
    /\ audit[Len(audit)].action = "CREATE"
    /\ audit[Len(audit)].entity_id = 2
    /\ audit[Len(audit)].user_email = resp.req.identity
    /\ audit[Len(audit)].changes.name = patients[2].name

\* ------------------------------------------------------ claims on updates
\* the value a submitted field takes once trimmed or parsed
SubmittedValue(data, f) ==
    CASE f = "name" -> Strip(data.name)
      [] f = "age" -> IntOf(data.age)
      [] f = "contact" -> Strip(data.contact)

\* the submitted fields whose value differs from the one in row
Differing(data, row) == {f \in data.has : SubmittedValue(data, f) # row[f]}

\* request p ends in this step with the answer Success to an update
UpdateSucceeds(p) ==
    /\ procs[p].pc \in {"update_patient_audit", "update_patient_respond"}
    /\ procs'[p] = Idle
    /\ Responded
    /\ resp'.op = "update_patient"
    /\ resp'.kind = "Success"

\* C13: an update of an existing non-deleted patient in which every submitted
\* field equals its current (trimmed) value stamps updated_at and updated_by
\* when its commit goes through, leaves name, age and contact as they are,
\* calls log_audit not at all and is answered Success next.
C13_UnchangedUpdateStampsWithoutAudit ==
    [][ \A p \in Procs :
          /\ ( /\ procs[p].pc = "update_patient_commit"
               /\ procs'[p] # procs[p]
               /\ Differing(procs[p].req.data, patients[procs[p].id]) = {}
               /\ ~(Responded /\ resp'.cause = "storage") )
             => LET id == procs[p].id IN
                /\ procs'[p].pc = "update_patient_respond"
                /\ audit' = audit
                /\ patients'[id].updated_by = Some(procs[p].req.identity)
                /\ patients'[id].updated_at > patients[id].updated_at
                /\ patients'[id].name = patients[id].name
                /\ patients'[id].age = patients[id].age
                /\ patients'[id].contact = patients[id].contact
          /\ ( procs[p].pc = "update_patient_respond" /\ procs'[p] # procs[p] )
             => /\ UpdateSucceeds(p)
                /\ UNCHANGED <<patients, audit>> ]_vars

\* C13 witness: an update that sent the stored age and the stored name with
\* a leading blank succeeded, and the audit trail holds no UPDATE entry.
C13_Witness ==
    /\ resp.op = "update_patient"
    /\ resp.kind = "Success"
    /\ resp.req.data.has = {"name", "age"}
    /\ resp.req.data.name # patients[resp.req.id].name
    /\ Differing(resp.req.data, patients[resp.req.id]) = {}
    /\ patients[resp.req.id].updated_by = Some(resp.req.identity)
    /\ \A e \in 1..Len(audit) : audit[e].action # "UPDATE"

\* the entry appended in this step is the UPDATE entry of request p: its
\* changes are exactly the differing fields, old the value before the update
\* and new the value after it
UpdateEntryRight(p) ==
    LET id == procs[p].id
        before == procs[p].snap
        differs == Differing(procs[p].req.data, before)
        e == audit'[Len(audit')]
    IN  /\ audit' = Append(audit, e)
        /\ e.entity_type = "patient"
        /\ e.entity_id = id
        /\ e.action = "UPDATE"
        /\ e.user_email = procs[p].req.identity
        /\ DOMAIN e.changes = differs
        /\ \A f \in differs :
              e.changes[f].old = before[f] /\ e.changes[f].new = patients'[id][f]

\* the commit of update request p goes through in this step
UpdateCommits(p) ==
    /\ procs[p].pc = "update_patient_commit"
    /\ procs'[p] # procs[p]
    /\ procs'[p] # Idle

\* request p leaves the step of update that calls log_audit, and is not
\* answered with a failure
UpdateLogged(p) ==
    /\ procs[p].pc = "update_patient_audit"
    /\ procs'[p] # procs[p]
    /\ ~(Responded /\ resp'.kind # "Success")

\* C14 as stated: a successful update appends an UPDATE audit entry if and
\* only if at least one submitted field differs from the stored value, and
\* the entry's changes are exactly the changed fields with their old and new
\* values.
C14_UpdateEntryIffChanged ==
    [][ \A p \in Procs :
          /\ UpdateCommits(p)
             => ( procs'[p].pc = "update_patient_refresh"
                  <=> Differing(procs[p].req.data, procs[p].snap) # {} )
          /\ UpdateLogged(p) => UpdateEntryRight(p)
          /\ UpdateSucceeds(p)
             => ( procs[p].pc = "update_patient_audit" \/ audit' = audit ) ]_vars

\* C14 amended: a successful update writes an UPDATE audit entry if and only
\* if at least one submitted field differs from the stored value; the entry,
\* appended unless that write fails, has as changes exactly the changed
\* fields with their old and new values.
C14_UpdateEntryIffChangedUnlessAuditFails ==
    [][ \A p \in Procs :
          /\ UpdateCommits(p)
             => ( procs'[p].pc = "update_patient_refresh"
                  <=> Differing(procs[p].req.data, procs[p].snap) # {} )
          /\ UpdateLogged(p) => ( audit' = audit \/ UpdateEntryRight(p) )
          /\ UpdateSucceeds(p)
             => ( procs[p].pc = "update_patient_audit" \/ audit' = audit ) ]_vars

\* C14 witness: an update that sent a new name and the stored age succeeded
\* and the last audit entry records the name alone.
C14_Witness ==
    /\ resp.op = "update_patient"
    /\ resp.kind = "Success"
    /\ resp.req.data.has = {"name", "age"}
    /\ audit # <<>>
    /\ audit[Len(audit)].action = "UPDATE"
    /\ audit[Len(audit)].entity_id = resp.req.id
    /\ DOMAIN audit[Len(audit)].changes = {"name"}
    /\ audit[Len(audit)].changes.name.new = patients[resp.req.id].name

\* the last response answered Success to an update of the name alone and this
\* step answers a get of the same patient
GetRightAfterNameUpdate ==
    /\ resp.op = "update_patient"
    /\ resp.kind = "Success"
    /\ resp.req.data.has = {"name"}
    /\ Responded
    /\ resp'.op = "get_patient"
    /\ resp'.req.id = resp.req.id

\* the get answers with the patient as stored, under the name given
GetReturnsStoredWithName(name) ==
    LET id == resp'.req.id IN
    /\ resp'.kind = "Success"
    /\ resp'.body.name = name
    /\ resp'.body.age = patients[id].age
    /\ resp'.body.contact = patients[id].contact
    /\ resp'.body.updated_at = patients[id].updated_at

\* the successful update of the name alone by request p stores the name
\* given, keeps age and contact and moves updated_at forward
NameUpdateStores(p, name) ==
    LET id == procs[p].id
        before == procs[p].snap
    IN  /\ patients'[id].name = name
        /\ patients'[id].age = before.age
        /\ patients'[id].contact = before.contact
        /\ patients'[id].updated_at > before.updated_at

\* C15 as stated: a successful update(id, {name: n}) followed immediately by
\* get(id) returns a patient whose name equals n, whose age and contact are
\* unchanged and whose updated_at is strictly greater than before the
\* update.
C15_NameRoundTrip ==
    [][ /\ \A p \in Procs :
             (UpdateSucceeds(p) /\ resp'.req.data.has = {"name"})
             => NameUpdateStores(p, resp'.req.data.name)
        /\ GetRightAfterNameUpdate => GetReturnsStoredWithName(resp.req.data.name) ]_vars

\* C15 amended: the patient returned has the name n with the surrounding
\* whitespace removed; age, contact and updated_at as stated.
C15_TrimmedNameRoundTrip ==
    [][ /\ \A p \in Procs :
             (UpdateSucceeds(p) /\ resp'.req.data.has = {"name"})
             => NameUpdateStores(p, Strip(resp'.req.data.name))
        /\ GetRightAfterNameUpdate
           => GetReturnsStoredWithName(Strip(resp.req.data.name)) ]_vars

\* C15 witness: right after an update to a name sent with blanks around it,
\* a get returned the trimmed name.
C15_Witness ==
    /\ resp.op = "get_patient"
    /\ resp.kind = "Success"
    /\ resp.body.name = Strip(NameAl)
    /\ resp.body.updated_by = Some(AdminEmail)
    /\ \E e \in 1..Len(audit) :
          /\ audit[e].action = "UPDATE"
          /\ audit[e].entity_id = resp.req.id
          /\ DOMAIN audit[e].changes = {"name"}

\* ---------------------------------------------- claims on the audit trail
\* the steps that call log_audit, with the action and the entity they log
AuditSteps ==
    { "create_patient_audit", "update_patient_audit", "delete_patient_audit",
      "restore_patient_audit", "create_medical_record_audit" }

LoggedAction(pc) ==
    CASE pc = "create_patient_audit" -> "CREATE"
      [] pc = "update_patient_audit" -> "UPDATE"
      [] pc = "delete_patient_audit" -> "DELETE"
      [] pc = "restore_patient_audit" -> "RESTORE"
      [] pc = "create_medical_record_audit" -> "CREATE"

LoggedEntity(pc) == IF pc = "create_medical_record_audit" THEN "medical_record" ELSE "patient"

MutatingOps ==
    { "create_patient", "update_patient", "delete_patient", "restore_patient",
      "create_medical_record" }

\* the answer that reports the success of a mutating operation
SuccessKind(op) ==
    IF op \in {"create_patient", "create_medical_record"} THEN "Created" ELSE "Success"

\* request p leaves the step that calls log_audit, after its primary
\* commit, and is not answered with a failure
NetChangeSucceeds(p) ==
    /\ procs[p].pc \in AuditSteps
    /\ procs'[p] # procs[p]
    /\ ~(Responded /\ resp'.kind # SuccessKind(resp'.op))

\* the primary mutation of request p, which is about to log, is in the store
CommittedBefore(p) ==
    LET pc == procs[p].pc
        id == procs[p].id
        actor == procs[p].req.identity
    IN  CASE pc = "create_patient_audit" ->
               id \in 1..Len(patients) /\ patients[id].created_by = actor
          [] pc = "update_patient_audit" ->
               /\ patients[id].updated_by = Some(actor)
               /\ \A f \in Differing(procs[p].req.data, procs[p].snap) :
                     patients[id][f] = SubmittedValue(procs[p].req.data, f)
          [] pc = "delete_patient_audit" ->
               patients[id].is_deleted /\ patients[id].deleted_by = Some(actor)
          [] pc = "restore_patient_audit" ->
               ~patients[id].is_deleted /\ patients[id].updated_by = Some(actor)
          [] pc = "create_medical_record_audit" ->
               id \in 1..Len(records) /\ records[id].created_by = actor

\* this step appends one entry, with the action, entity and actor of request p
AppendsEntryOf(p) ==
    LET e == audit'[Len(audit')] IN
    /\ audit' = Append(audit, e)
    /\ e.action = LoggedAction(procs[p].pc)
    /\ e.entity_type = LoggedEntity(procs[p].pc)
    /\ e.entity_id = procs[p].id
    /\ e.user_email = procs[p].req.identity

\* the audit trail changes only in the logging step of a request whose
\* primary mutation is committed, and the step changes nothing else stored
LogsOnlyAfterCommit ==
    audit' # audit
    => /\ \E p \in Procs :
             procs[p].pc \in AuditSteps /\ procs'[p] # procs[p] /\ CommittedBefore(p)
       /\ UNCHANGED <<users, patients, records>>

\* a mutating operation that is refused or fails appends nothing
FailureLogsNothing ==
    (Responded /\ resp'.op \in MutatingOps /\ resp'.kind # SuccessKind(resp'.op))
    => audit' = audit

\* C16 as stated: each successful mutating operation that produced a net
\* change appends exactly one audit entry with the matching action, entity
\* and actor, written only after the primary mutation has committed; an
\* operation that fails or is refused appends none.
C16_ExactlyOneEntryPerNetChange ==
    [][ /\ \A p \in Procs : NetChangeSucceeds(p) => AppendsEntryOf(p)
        /\ LogsOnlyAfterCommit
        /\ FailureLogsNothing ]_vars

\* C16 amended: each such operation appends at most one audit entry, and
\* exactly one unless the audit write fails; the rest as stated.
C16_OneEntryPerNetChangeUnlessAuditFails ==
    [][ /\ \A p \in Procs : NetChangeSucceeds(p) => (audit' = audit \/ AppendsEntryOf(p))
        /\ \A p \in Procs : (procs[p].pc \in AuditSteps /\ audit' # audit) => AppendsEntryOf(p)
        /\ LogsOnlyAfterCommit
        /\ FailureLogsNothing ]_vars

\* C16 witness: the first patient, restored since, was soft-deleted again;
\* the request succeeded and its DELETE entry, by the same actor, is the last
\* of the audit trail, after the RESTORE entry.
C16_Witness ==
    /\ resp.op = "delete_patient"
    /\ resp.kind = "Success"
    /\ resp.req.id = 1
    /\ patients[1].is_deleted
    /\ Len(audit) >= 4
    /\ audit[Len(audit)].action = "DELETE"
    /\ audit[Len(audit)].entity_id = 1
    /\ audit[Len(audit)].user_email = resp.req.identity
    /\ audit[Len(audit) - 1].action = "RESTORE"

\* C17: the audit trail is append-only: the sequence of entries before a step
\* is a prefix of the sequence after it, whatever the step.
C17_AuditAppendOnly ==
    [][ /\ Len(audit) <= Len(audit')
        /\ SubSeq(audit', 1, Len(audit)) = audit ]_vars

\* C17 witness: the first patient, created and soft-deleted, was restored and
\* updated since, and the trail still starts with its CREATE and DELETE.
C17_Witness ==
    /\ Len(audit) >= 4
    /\ audit[1].action = "CREATE" /\ audit[1].entity_id = 1
    /\ audit[2].action = "DELETE" /\ audit[2].entity_id = 1
    /\ \E e \in 3..Len(audit) : audit[e].action = "RESTORE" /\ audit[e].entity_id = 1
    /\ \E e \in 3..Len(audit) : audit[e].action = "UPDATE" /\ audit[e].entity_id = 1

\* C18: when the audit write of a mutating operation fails (the logging step
\* of a request ends and the trail is as before), the committed primary
\* mutation stays committed and the caller receives the success answer of the
\* operation.
C18_AuditFailureKeepsSuccess ==
    [][ \A p \in Procs :
          (procs[p].pc \in AuditSteps /\ procs'[p] = Idle /\ audit' = audit)
          => /\ CommittedBefore(p)
             /\ UNCHANGED <<patients, records>>
             /\ Responded
             /\ resp'.kind = SuccessKind(resp'.op) ]_vars

\* ------------------------------------------- claims on persistence failure
\* the steps from which a request goes on to its commit
CommitSteps ==
    { "register_email", "register_commit", "create_patient_commit", "update_patient_commit",
      "delete_patient_commit", "restore_patient_commit", "create_medical_record_commit" }

\* the commit of a request fails in this step: the store refuses it, for a
\* fault of its own or for a unique constraint
CommitFails == Responded /\ resp'.cause \in {"storage", "unique"}

\* C19: if the commit of a mutating operation (create patient, update,
\* soft-delete, restore, create medical record, register) fails, the stored
\* users, patients and records are as before the operation, no audit entry
\* is appended, no notification is emitted and the caller receives a failure.
C19_FailedCommitChangesNothing ==
    [][ /\ CommitFails
           => /\ resp'.op \in MutatingOps \cup {"register"}
              /\ resp'.kind = "PersistenceFailure"
              /\ UNCHANGED <<users, patients, records, audit, notifications>>
              /\ \A p \in Procs : procs'[p] # procs[p] => procs'[p] = Idle
        /\ \A p \in Procs :
              (procs'[p] # procs[p] /\ procs'[p].pc \in CommitSteps)
              => UNCHANGED <<users, patients, records, audit, notifications>> ]_vars

\* C19 witness: the commit of a restore failed; the patient is still
\* soft-deleted and the trail has the two entries it started with.
C19_Witness ==
    /\ resp.op = "restore_patient"
    /\ resp.kind = "PersistenceFailure"
    /\ resp.cause = "storage"
    /\ patients[resp.req.id].is_deleted
    /\ patients[resp.req.id].deleted_by # None
    /\ Len(audit) = 2

\* ------------------------------------------------- claims on the ledger
\* C20: every medical record is committed for a patient that exists and is
\* not soft-deleted at that moment, also when a soft-delete of the patient
\* runs concurrently; a create on a missing or soft-deleted patient is
\* answered NotFound and one with an empty diagnosis MissingFields, and
\* neither adds a record or an audit entry.
C20_RecordOnlyForLivePatient ==
    [][ /\ records' # records
           => LET r == records'[Len(records')] IN
              /\ records' = Append(records, r)
              /\ PatientBy(r.patient_id, FALSE)
        /\ \A p \in Procs :
              (procs[p].pc = "create_medical_record_select" /\ procs'[p] # procs[p])
              => IF ~PatientBy(procs[p].req.id, FALSE)
                 THEN Responded /\ resp'.kind = "NotFound"
                 ELSE procs[p].req.data.diagnosis = <<>>
                      => Responded /\ resp'.kind = "MissingFields"
        /\ (Responded /\ resp'.op = "create_medical_record"
              /\ resp'.kind \in {"NotFound", "MissingFields"})
           => UNCHANGED <<records, audit>> ]_vars

\* C21: medical records are append-only: whatever the step (soft-delete,
\* restore and update of the owning patient included), the records before it
\* are a prefix of the records after it, field by field.
C21_RecordsAppendOnly ==
    [][ /\ Len(records) <= Len(records')
        /\ SubSeq(records', 1, Len(records)) = records ]_vars

\* C21 witness: a record is stored for a patient that was soft-deleted after
\* the record was committed.
C21_Witness ==
    \E r \in 1..Len(records) :
        LET owner == patients[records[r].patient_id] IN
        /\ owner.is_deleted
        /\ owner.deleted_at # None
        /\ owner.deleted_at[1] > records[r].created_at

\* ------------------------------------------------ claims on serialization
\* name, age and contact of a row
Fields(row) == [name |-> row.name, age |-> row.age, contact |-> row.contact]

\* the fields after update "first" and then update "second" ran one after the
\* other on row
InOrder(row, first, second) ==
    Fields(UpdatedPatient(UpdatedPatient(row, first, AdminEmail, 0), second, AdminEmail, 0))

\* the UPDATE entries of the trail written for this actor
UpdatesBy(actor) ==
    {e \in 1..Len(audit) : audit[e].action = "UPDATE" /\ audit[e].user_email = actor}

\* the two updates, and no other, have run to their end: each left one UPDATE
\* entry, and the clock was read twice by each
BothUpdatesDone ==
    /\ \A p \in Procs : procs[p] = Idle
    /\ now = SerialStart + 4
    /\ Cardinality(UpdatesBy(AdminEmail)) = 1
    /\ Cardinality(UpdatesBy(DoctorEmail)) = 1

\* C22: two concurrent updates to the same patient serialize: in every
\* interleaving the final name, age and contact are those of the two updates
\* run one after the other in one of the two orders.
C22_ConcurrentUpdatesSerialize ==
    BothUpdatesDone
    => Fields(patients[1]) \in { InOrder(SerialPatient, SerialFirst, SerialSecond),
                                 InOrder(SerialPatient, SerialSecond, SerialFirst) }

\* ------------------------------------------------ claims on registration
\* the answer register owes to this request: the first check that fails, in
\* the order of the checks, or Created
RegisterOutcome(data) ==
    IF RegisterFieldError(data) # "ok" THEN RegisterFieldError(data)
    ELSE IF UserByUsername(data.username) # {} THEN "DuplicateUsername"
    ELSE IF EmailTaken(data.email) THEN "DuplicateEmail"
    ELSE "Created"

\* C23: register applies its checks in the order MissingFields, InvalidEmail,
\* WeakPassword, InvalidRole, DuplicateUsername, DuplicateEmail and reports
\* the first that fails, creating no user; on success (the commit going
\* through) exactly one user is added, with the e-mail lower-cased, the role
\* lower-cased and is_active true.  The success is settled by the commit;
\* the answer Created follows it and adds nothing.
C23_RegisterChecksInOrder ==
    [][ /\ (RegisterRefused /\ resp'.cause # "storage")
           => /\ resp'.kind = RegisterOutcome(resp'.req)
              /\ users' = users
        /\ \A p \in Procs :
              RegisterCommitted(p)
              => LET u == users'[Len(users')] IN
                 /\ RegisterOutcome(procs[p].req) = "Created"
                 /\ users' = Append(users, u)
                 /\ u.email = Lower(procs[p].req.email)
                 /\ u.role = Lower(procs[p].req.role)
                 /\ u.username = procs[p].req.username
                 /\ u.is_active
        /\ (Responded /\ resp'.op = "register" /\ resp'.kind = "Created")
           => /\ users' = users
              /\ \E p \in Procs : procs[p].pc = "register_respond" /\ procs'[p] = Idle ]_vars

\* --------------------------------------------------- claims on pagination
\* C24: list never returns more than 100 items whatever per_page asks for (a
\* larger value is clamped to 100, not rejected), and its metadata is derived
\* from the matching set: total_items is the number of matching patients,
\* total_pages is ceil(total_items / per_page), has_prev holds iff page > 1
\* and has_next iff page < total_pages, page and per_page being the ones the
\* response reports and the per_page asked for being at least 1.
C24_ListClampedAndMetadataDerived ==
    [][ (Responded /\ resp'.op = "get_patients")
        => LET q == resp'.req.q
               body == resp'.body
           IN  /\ resp'.kind = "Success"
               /\ Len(body.patients) <= 100
               /\ q.per_page > 100 => body.per_page = 100
               /\ q.per_page \in 1..100 => body.per_page = q.per_page
               /\ q.page >= 1 => body.page = q.page
               /\ {body.patients[i].id : i \in 1..Len(body.patients)} \subseteq Matching(q)
               /\ body.total_items = Cardinality(Matching(q))
               /\ q.per_page >= 1
                  => /\ Len(body.patients) <= body.per_page
                     /\ body.total_pages * body.per_page >= body.total_items
                     /\ (body.total_pages - 1) * body.per_page < body.total_items
               /\ body.has_prev <=> body.page > 1
               /\ body.has_next <=> body.page < body.total_pages ]_vars

\* C24 witness: a list of 101 matching patients asked with per_page above 100
\* returned 100 items, on the first of two pages.
C24_Witness ==
    /\ resp.op = "get_patients"
    /\ resp.req.q.per_page > 100
    /\ Len(resp.body.patients) = 100
    /\ resp.body.total_items = 101
    /\ resp.body.total_pages = 2
    /\ resp.body.has_next
    /\ ~resp.body.has_prev

\* -------------------------------------------------------- claims on search
\* s occurs in name as a substring, letter case ignored
ContainsIgnoringCase(name, s) ==
    \E i \in 1..(Len(name) + 1) :
        /\ i + Len(s) - 1 <= Len(name)
        /\ SubSeq(Lower(name), i, i + Len(s) - 1) = Lower(s)

\* the patients a list with query q is to match
SubstringMatches(q) ==
    { id \in 1..Len(patients) :
        /\ (IncludesDeleted(q) \/ ~patients[id].is_deleted)
        /\ ContainsIgnoringCase(patients[id].name, q.search) }

\* C25: for every search string s, list with search=s matches exactly the
\* patients whose name contains s as a substring, letter case ignored.
C25_SearchIsSubstringMatch ==
    [][ (Responded /\ resp'.op = "get_patients")
        => LET q == resp'.req.q
               body == resp'.body
               shown == {body.patients[i].id : i \in 1..Len(body.patients)}
           IN  /\ shown \subseteq SubstringMatches(q)
               /\ body.total_items = Cardinality(SubstringMatches(q))
               /\ (body.page = 1 /\ body.total_items <= body.per_page)
                  => shown = SubstringMatches(q) ]_vars

\* ------------------------------------------- claims on the stamps of a row
\* the steps that commit a mutation of an existing patient
PatientCommitSteps ==
    {"update_patient_commit", "delete_patient_commit", "restore_patient_commit"}

\* C26: after every successful mutation of a patient (update, soft-delete,
\* restore) updated_by is the actor of that mutation and updated_at the time
\* of that mutation, later than the stamp it replaces; this includes
\* soft-delete.
C26_MutationStampsActorAndTime ==
    [][ \A p \in Procs :
          (procs[p].pc \in PatientCommitSteps /\ patients' # patients)
          => LET id == procs[p].id IN
             /\ patients'[id].updated_by = Some(procs[p].req.identity)
             /\ patients'[id].updated_at > patients[id].updated_at
             /\ patients'[id].updated_at <= now' ]_vars

\* C27: created_at and created_by of a patient are set once, by create, to
\* the time of the creation and the creating actor, and no later step (update,
\* soft-delete or restore included) changes them.
C27_CreationStampsImmutable ==
    [][ /\ Len(patients') >= Len(patients)
        /\ \A id \in 1..Len(patients) :
              /\ patients'[id].created_at = patients[id].created_at
              /\ patients'[id].created_by = patients[id].created_by
        /\ \A p \in Procs :
              (procs[p].pc = "create_patient_commit" /\ procs'[p].pc = "create_patient_refresh")
              => LET new == patients'[procs'[p].id] IN
                 /\ Len(patients') = Len(patients) + 1
                 /\ procs'[p].id = Len(patients')
                 /\ new.created_by = procs'[p].req.identity
                 /\ new.created_at > now
                 /\ new.created_at <= now' ]_vars

\* C27 witness: a patient created by the administrator was updated and then
\* soft-deleted, and still carries the stamps of its creation.
C27_Witness ==
    \E id \in 1..Len(patients) :
        /\ patients[id].created_by = AdminEmail
        /\ patients[id].updated_by = Some(AdminEmail)
        /\ patients[id].is_deleted
        /\ patients[id].created_at < patients[id].updated_at
        /\ \E e \in 1..Len(audit) : audit[e].action = "UPDATE" /\ audit[e].entity_id = id

\* ------------------------------------------------ claims on failed updates
\* the answers to an update that failed a check on a submitted field
ValidationFailures == {"InvalidName", "InvalidFormat", "InvalidAge", "InvalidContact"}

FailedValidation(r) ==
    /\ r.op = "update_patient"
    /\ r.kind \in ValidationFailures \/ (r.kind = "PersistenceFailure" /\ r.cause = "exception")

\* C28: an update that fails validation on any submitted field persists
\* nothing, also when an earlier field of the request is valid and differs
\* from the stored value: the stored patients are unchanged, no audit entry is
\* appended, and a get that follows returns the name, age, contact, updated_at
\* and updated_by stored before the update.
C28_FailedUpdatePersistsNothing ==
    [][ /\ (Responded /\ FailedValidation(resp'))
           => /\ UNCHANGED <<patients, audit, records, notifications>>
              /\ \A p \in Procs : procs'[p] = procs[p] \/ procs'[p] = Idle
        /\ ( /\ FailedValidation(resp)
             /\ Responded
             /\ resp'.op = "get_patient"
             /\ resp'.req.id = resp.req.id )
           => LET row == patients[resp.req.id] IN
              /\ resp'.kind = "Success"
              /\ resp'.body.name = row.name
              /\ resp'.body.age = row.age
              /\ resp'.body.contact = row.contact
              /\ resp'.body.updated_at = row.updated_at
              /\ resp'.body.updated_by = row.updated_by ]_vars

\* C28 witness: an update with a valid new name and an age out of range was
\* turned down, and the patient has the name and the stamps of its creation.
C28_Witness ==
    /\ resp.op = "update_patient"
    /\ resp.kind = "InvalidAge"
    /\ "name" \in resp.req.data.has
    /\ Len(Strip(resp.req.data.name)) >= 2
    /\ patients[resp.req.id].name # Strip(resp.req.data.name)
    /\ patients[resp.req.id].updated_by = None
    /\ patients[resp.req.id].updated_at = patients[resp.req.id].created_at + 1
    /\ \A e \in 1..Len(audit) : audit[e].action # "UPDATE"

\* ------------------------------------------- claims on reading the ledger
\* the records of a ledger that belong to patient id
RecordsFor(ledger, id) == {r \in 1..Len(ledger) : ledger[r].patient_id = id}

\* C29: listForPatient on an existing non-deleted patient returns exactly the
\* records whose patient_id is that patient, by visit_date descending, and on
\* a soft-deleted or missing patient NotFound; after a restore it returns the
\* records it returned before the soft-delete, the records of a patient being
\* the same at every step taken while the patient is soft-deleted.  The
\* request looks the patient up in its first query and reads the records in
\* its second: it is turned down, with NotFound, exactly when the first
\* finds no live patient, and the second returns the records as stored then.
C29_ListForPatientExactAndStable ==
    [][ /\ (Responded /\ resp'.op = "get_medical_records" /\ resp'.kind # "Success")
           => (resp'.kind = "NotFound" /\ ~PatientBy(resp'.req.id, FALSE))
        /\ \A p \in Procs :
              /\ (procs[p].pc = "idle" /\ procs'[p].pc = "get_medical_records_select")
                 => PatientBy(procs'[p].id, FALSE)
              /\ (procs[p].pc = "get_medical_records_select" /\ procs'[p] # procs[p])
                 => LET id == procs[p].id
                        items == resp'.body.records
                    IN  /\ Responded
                        /\ resp'.op = "get_medical_records"
                        /\ resp'.kind = "Success"
                        /\ {items[i].id : i \in 1..Len(items)} = RecordsFor(records, id)
                        /\ Len(items) = Cardinality(RecordsFor(records, id))
                        /\ \A i, j \in 1..Len(items) :
                              i < j => items[i].visit_date >= items[j].visit_date
        /\ \A id \in 1..Len(patients) :
              patients[id].is_deleted => RecordsFor(records', id) = RecordsFor(records, id) ]_vars

\* ------------------------------------------------- claims on notifications
\* the notifications of a sequence that announce the creation of patient id
CreatedEvents(events, id) ==
    { n \in 1..Len(events) :
        events[n].event_type = "patient_created" /\ events[n].patient_id = id }

\* C30: each create patient answered Created emits exactly one
\* patient_created notification, carrying the id of the new patient, after
\* the row of the patient has committed; a create that is answered with a
\* failure of validation, authorization or persistence emits none, and no
\* other step emits one.
C30_OneNotificationPerCreate ==
    [][ /\ (Responded /\ resp'.op = "create_patient" /\ resp'.kind = "Created")
           => LET n == notifications'[Len(notifications')] IN
              /\ notifications' = Append(notifications, n)
              /\ n.event_type = "patient_created"
              /\ n.patient_id = resp'.body.id
              /\ n.created_by = resp'.req.identity
              /\ Cardinality(CreatedEvents(notifications', resp'.body.id)) = 1
              /\ PatientBy(resp'.body.id, FALSE)
              /\ patients' = patients
        /\ (Responded /\ resp'.op = "create_patient" /\ resp'.kind # "Created")
           => notifications' = notifications
        /\ notifications' # notifications
           => (Responded /\ resp'.op = "create_patient" /\ resp'.kind = "Created") ]_vars

\* C30 witness: two patients were created and each has its one notification.
C30_Witness ==
    /\ resp.op = "create_patient"
    /\ resp.kind = "Created"
    /\ resp.body.id = 2
    /\ Len(notifications) = 2
    /\ notifications[1].patient_id = 1
    /\ notifications[2].patient_id = 2
    /\ notifications[2].patient_name = patients[2].name

\* ------------------------------------------- claims on the audit history
\* the request of p commits an update whose UPDATE entry will be written
CommitsLoggedUpdate(p) ==
    /\ procs[p].pc = "update_patient_commit"
    /\ procs'[p].pc = "update_patient_refresh"

\* C31: the 'old' value of every field of an UPDATE entry is the value that
\* was persisted immediately before that update committed, and its 'new'
\* value the one persisted by the commit, also when updates to the same
\* patient run concurrently.
C31_UpdateEntryOldIsPersisted ==
    [][ \A p \in Procs :
          /\ CommitsLoggedUpdate(p)
             => LET id == procs[p].id
                    changes == PatientChanges(procs[p].snap, procs[p].row)
                IN  \A f \in DOMAIN changes :
                       /\ changes[f].old = patients[id][f]
                       /\ changes[f].new = patients'[id][f]
          /\ (procs[p].pc = "update_patient_audit" /\ procs'[p] # procs[p]
              /\ audit' # audit)
             => LET e == audit'[Len(audit')] IN
                /\ audit' = Append(audit, e)
                /\ e.action = "UPDATE"
                /\ e.entity_id = procs[p].id
                /\ e.changes = PatientChanges(procs[p].snap, procs[p].row) ]_vars

\* the positions in the audit trail of the entries of patient id with one of
\* the given actions, in the order they were written
TrailOf(id, actions) ==
    SelectSeq([i \in 1..Len(audit) |-> i],
              LAMBDA i : /\ audit[i].entity_type = "patient"
                         /\ audit[i].entity_id = id
                         /\ audit[i].action \in actions)

\* C32: with no audit write failing, the DELETE and RESTORE entries of any
\* one patient alternate strictly, starting with DELETE, and all come after
\* the CREATE entry of the patient, also when requests on the same patient
\* run concurrently.
C32_DeleteRestoreAlternate ==
    \A id \in Ids :
       LET t == TrailOf(id, {"DELETE", "RESTORE"})
           c == TrailOf(id, {"CREATE"})
       IN  /\ \A i \in 1..Len(t) :
                 audit[t[i]].action = IF i % 2 = 1 THEN "DELETE" ELSE "RESTORE"
           /\ Len(t) > 0 => (Len(c) > 0 /\ c[1] < t[1])

\* ------------------------------------------------ claims on error answers
\* C33: whenever a mutating operation (create patient, update, soft-delete,
\* restore, create medical record) answers with an error, the stored
\* patients and medical records are as before the operation: the answering
\* step changes nothing, and no request answers with an error once its
\* primary mutation has committed, even if the audit write, the notification
\* or the building of the response fails.
C33_ErrorMeansNothingPersisted ==
    [][ (Responded /\ resp'.op \in MutatingOps /\ resp'.kind # SuccessKind(resp'.op))
        => /\ UNCHANGED <<patients, records>>
           /\ \A p \in Procs :
                 procs'[p] # procs[p] => procs[p].pc \notin AuditSteps ]_vars

====
